---- MODULE Spec2Model ----
(***************************************************************************)
(* Progression & economy engine of the Solar K2 Bootstrapper idle game:    *)
(* resource ledger, production calculator, construction scheduler,         *)
(* research scheduler, milestone and era evaluator, offline reconciler and *)
(* the boot sequence that wires them together.                             *)
(*                                                                         *)
(* JavaScript numbers are held in fixed point.  Resource quantities and    *)
(* production rates are counted in 1/RScale resource units, multipliers in *)
(* 1/MScale, the solar capture fraction in 1/SCScale, and every time       *)
(* (deltaTime, build progress, offline gap) in milliseconds.               *)
(***************************************************************************)
EXTENDS Integers, Sequences, FiniteSets

\* ------------------------------------------------------------------ units
RScale == 100
MScale == 1000
SCScale == 10000
MsPerSecond == 1000

\* ------------------------------------------------- bounds of the exploration
\* Game-loop update callbacks explored per session.
MaxTicks == 2
\* Largest count handed to bulkBuild.
MaxBulk == 2
\* Player commands explored per session.
MaxCommands == 2
\* Callbacks registered with subscribe at one time.
MaxSubscriptions == 3

\* ------------------------------------------------------- program constants
baseQueueSize == 10
MAX_OFFLINE_HOURS == 24
\* CONFIG.OFFLINE_EFFICIENCY = 0.5, in 1/MScale
OFFLINE_EFFICIENCY == 500
\* "No significant offline time (less than 1 minute)"
MinOfflineMs == 60000
\* CONFIG.BASE_PRODUCTION and CONFIG.STARTING_RESOURCES, in 1/RScale
BASE_PRODUCTION == [energy |-> 100, materials |-> 50, research |-> 20]
STARTING_RESOURCES == [energy |-> 10000, materials |-> 5000, research |-> 0]
\* CONFIG.ERAS[era].threshold, in 1/SCScale
ERAS == [e \in 1..4 |-> CASE e = 1 -> 0 [] e = 2 -> 10 [] e = 3 -> 100 [] e = 4 -> 1000]

ResourceKinds == {"energy", "materials", "research"}

\* ------------------------------------------------------------ sequences
Range(s) == {s[i] : i \in 1..Len(s)}

Contains(s, x) == \E i \in 1..Len(s) : s[i] = x

\* Array.prototype.indexOf, 1-based; 0 when absent.
IndexOf(s, x) == IF Contains(s, x) THEN CHOOSE i \in 1..Len(s) : s[i] = x /\ \A j \in 1..(i - 1) : s[j] # x ELSE 0

\* Array.prototype.splice(index, 1) for a 1-based index inside the array.
RemoveAt(s, i) == SubSeq(s, 1, i - 1) \o SubSeq(s, i + 1, Len(s))

\* floor(a * m / MScale) for a, m >= 0 without leaving 32-bit integers.
Mul(a, m) == (a \div MScale) * m + ((a % MScale) * m) \div MScale

Min(a, b) == IF a < b THEN a ELSE b

Max(a, b) == IF a > b THEN a ELSE b

\* ------------------------------------------------------------- catalogs
\* production fields of a structure: buildSpeedBonus, energyEfficiency and dysonBonus
\* in 1/MScale, solarCapture in 1/SCScale, the others in whole units.
NoProduction == [energy |-> 0, materials |-> 0, research |-> 0, buildSpeedBonus |-> 0,
    solarCapture |-> 0, launchCapacity |-> 0, cargoCapacity |-> 0, population |-> 0,
    autoConstruction |-> 0, energyEfficiency |-> 0, dysonBonus |-> 0, exoticMaterials |-> 0,
    antimatter |-> 0, energyStorage |-> 0, solarMatter |-> 0, computation |-> 0]

\* effect fields of a technology that the code reads: multipliers in 1/MScale
\* (0 = the field is absent), researchSlots in whole slots.
NoEffects == [energyGeneration |-> 0, energyProduction |-> 0, solarEfficiency |-> 0,
    materialProduction |-> 0, researchEfficiency |-> 0, productionMultiplier |-> 0,
    buildSpeed |-> 0, constructionEfficiency |-> 0, dysonEfficiency |-> 0, researchSlots |-> 0]

StructureOrder ==
    << "launch_pad",
    "solar_collector",
    "space_station",
    "mining_outpost",
    "habitat_module",
    "cargo_ship",
    "asteroid_miner",
    "oneill_cylinder",
    "construction_hub",
    "mercury_base",
    "orbital_solar_array",
    "dyson_satellite",
    "replicator_hub",
    "energy_relay",
    "stellar_forge",
    "dyson_hub",
    "antimatter_factory",
    "starlifter",
    "computation_sphere" >>

STRUCTURES == [
    launch_pad |-> [cost |-> <<[type |-> "energy", amount |-> 50], [type |-> "materials", amount |-> 100]>>,
        buildTime |-> 10, hasLimit |-> TRUE, limit |-> 5, requiresTech |-> "basic_rocketry",
        production |-> [NoProduction EXCEPT !.launchCapacity = 1]],
    solar_collector |-> [cost |-> <<[type |-> "energy", amount |-> 20], [type |-> "materials", amount |-> 50]>>,
        buildTime |-> 5, hasLimit |-> FALSE, limit |-> 0, requiresTech |-> "solar_panels",
        production |-> [NoProduction EXCEPT !.energy = 5]],
    space_station |-> [cost |-> <<[type |-> "energy", amount |-> 100], [type |-> "materials", amount |-> 200]>>,
        buildTime |-> 30, hasLimit |-> TRUE, limit |-> 3, requiresTech |-> "orbital_mechanics",
        production |-> [NoProduction EXCEPT !.research = 1]],
    mining_outpost |-> [cost |-> <<[type |-> "energy", amount |-> 80], [type |-> "materials", amount |-> 150]>>,
        buildTime |-> 20, hasLimit |-> TRUE, limit |-> 10, requiresTech |-> "material_science",
        production |-> [NoProduction EXCEPT !.materials = 3]],
    habitat_module |-> [cost |-> <<[type |-> "energy", amount |-> 60], [type |-> "materials", amount |-> 120]>>,
        buildTime |-> 15, hasLimit |-> TRUE, limit |-> 20, requiresTech |-> "life_support",
        production |-> [NoProduction EXCEPT !.population = 10]],
    cargo_ship |-> [cost |-> <<[type |-> "energy", amount |-> 200], [type |-> "materials", amount |-> 300]>>,
        buildTime |-> 25, hasLimit |-> TRUE, limit |-> 20, requiresTech |-> "ion_propulsion",
        production |-> [NoProduction EXCEPT !.cargoCapacity = 100]],
    asteroid_miner |-> [cost |-> <<[type |-> "energy", amount |-> 300], [type |-> "materials", amount |-> 400]>>,
        buildTime |-> 35, hasLimit |-> TRUE, limit |-> 50, requiresTech |-> "asteroid_mining",
        production |-> [NoProduction EXCEPT !.materials = 15]],
    oneill_cylinder |-> [cost |-> <<[type |-> "energy", amount |-> 1000], [type |-> "materials", amount |-> 2000]>>,
        buildTime |-> 120, hasLimit |-> TRUE, limit |-> 10, requiresTech |-> "rotating_habitats",
        production |-> [NoProduction EXCEPT !.population = 1000, !.research = 2]],
    construction_hub |-> [cost |-> <<[type |-> "energy", amount |-> 500], [type |-> "materials", amount |-> 800]>>,
        buildTime |-> 60, hasLimit |-> TRUE, limit |-> 5, requiresTech |-> "automated_construction",
        production |-> [NoProduction EXCEPT !.buildSpeedBonus = 100]],
    mercury_base |-> [cost |-> <<[type |-> "energy", amount |-> 800], [type |-> "materials", amount |-> 1500]>>,
        buildTime |-> 90, hasLimit |-> TRUE, limit |-> 3, requiresTech |-> "mercury_operations",
        production |-> [NoProduction EXCEPT !.energy = 20, !.materials = 5]],
    orbital_solar_array |-> [cost |-> <<[type |-> "energy", amount |-> 2000], [type |-> "materials", amount |-> 3000]>>,
        buildTime |-> 60, hasLimit |-> TRUE, limit |-> 100, requiresTech |-> "solar_collectors_orbital",
        production |-> [NoProduction EXCEPT !.energy = 100]],
    dyson_satellite |-> [cost |-> <<[type |-> "energy", amount |-> 100], [type |-> "materials", amount |-> 200]>>,
        buildTime |-> 2, hasLimit |-> FALSE, limit |-> 0, requiresTech |-> "dyson_swarm_basics",
        production |-> [NoProduction EXCEPT !.solarCapture = 1, !.energy = 50]],
    replicator_hub |-> [cost |-> <<[type |-> "energy", amount |-> 5000], [type |-> "materials", amount |-> 8000]>>,
        buildTime |-> 180, hasLimit |-> TRUE, limit |-> 10, requiresTech |-> "self_replication",
        production |-> [NoProduction EXCEPT !.materials = 50, !.autoConstruction = 1]],
    energy_relay |-> [cost |-> <<[type |-> "energy", amount |-> 3000], [type |-> "materials", amount |-> 2000]>>,
        buildTime |-> 45, hasLimit |-> TRUE, limit |-> 20, requiresTech |-> "energy_transmission",
        production |-> [NoProduction EXCEPT !.energyEfficiency = 50]],
    stellar_forge |-> [cost |-> <<[type |-> "energy", amount |-> 10000], [type |-> "materials", amount |-> 5000]>>,
        buildTime |-> 240, hasLimit |-> TRUE, limit |-> 5, requiresTech |-> "mega_engineering",
        production |-> [NoProduction EXCEPT !.materials = 100, !.exoticMaterials = 1]],
    dyson_hub |-> [cost |-> <<[type |-> "energy", amount |-> 50000], [type |-> "materials", amount |-> 30000]>>,
        buildTime |-> 300, hasLimit |-> TRUE, limit |-> 10, requiresTech |-> "dyson_swarm_advanced",
        production |-> [NoProduction EXCEPT !.solarCapture = 100, !.energy = 5000, !.dysonBonus = 2000]],
    antimatter_factory |-> [cost |-> <<[type |-> "energy", amount |-> 100000], [type |-> "materials", amount |-> 50000]>>,
        buildTime |-> 600, hasLimit |-> TRUE, limit |-> 5, requiresTech |-> "antimatter_production",
        production |-> [NoProduction EXCEPT !.antimatter = 1, !.energyStorage = 10000]],
    starlifter |-> [cost |-> <<[type |-> "energy", amount |-> 200000], [type |-> "materials", amount |-> 100000]>>,
        buildTime |-> 900, hasLimit |-> TRUE, limit |-> 3, requiresTech |-> "stellar_engineering",
        production |-> [NoProduction EXCEPT !.materials = 1000, !.solarMatter = 10]],
    computation_sphere |-> [cost |-> <<[type |-> "energy", amount |-> 500000], [type |-> "materials", amount |-> 300000]>>,
        buildTime |-> 1200, hasLimit |-> TRUE, limit |-> 3, requiresTech |-> "matrioshka_brain",
        production |-> [NoProduction EXCEPT !.computation = 1000000, !.research = 100]] ]

TechOrder ==
    << "basic_rocketry",
    "solar_panels",
    "orbital_mechanics",
    "material_science",
    "life_support",
    "ion_propulsion",
    "asteroid_mining",
    "rotating_habitats",
    "automated_construction",
    "parallel_research",
    "mercury_operations",
    "solar_collectors_orbital",
    "dyson_swarm_basics",
    "self_replication",
    "energy_transmission",
    "mega_engineering",
    "distributed_intelligence",
    "dyson_swarm_advanced",
    "antimatter_production",
    "stellar_engineering",
    "matrioshka_brain",
    "k2_completion" >>

TECH_TREE == [
    basic_rocketry |-> [era |-> 1, cost |-> 0, unlocked |-> TRUE,
        prerequisites |-> <<>>,
        effects |-> NoEffects],
    solar_panels |-> [era |-> 1, cost |-> 50, unlocked |-> FALSE,
        prerequisites |-> <<"basic_rocketry">>,
        effects |-> [NoEffects EXCEPT !.energyGeneration = 1000]],
    orbital_mechanics |-> [era |-> 1, cost |-> 75, unlocked |-> FALSE,
        prerequisites |-> <<"basic_rocketry">>,
        effects |-> NoEffects],
    material_science |-> [era |-> 1, cost |-> 100, unlocked |-> FALSE,
        prerequisites |-> <<"basic_rocketry">>,
        effects |-> [NoEffects EXCEPT !.constructionEfficiency = 1100]],
    life_support |-> [era |-> 1, cost |-> 150, unlocked |-> FALSE,
        prerequisites |-> <<"orbital_mechanics">>,
        effects |-> NoEffects],
    ion_propulsion |-> [era |-> 2, cost |-> 300, unlocked |-> FALSE,
        prerequisites |-> <<"solar_panels", "orbital_mechanics">>,
        effects |-> NoEffects],
    asteroid_mining |-> [era |-> 2, cost |-> 400, unlocked |-> FALSE,
        prerequisites |-> <<"material_science", "ion_propulsion">>,
        effects |-> [NoEffects EXCEPT !.materialProduction = 2000]],
    rotating_habitats |-> [era |-> 2, cost |-> 500, unlocked |-> FALSE,
        prerequisites |-> <<"life_support", "material_science">>,
        effects |-> NoEffects],
    automated_construction |-> [era |-> 2, cost |-> 600, unlocked |-> FALSE,
        prerequisites |-> <<"asteroid_mining">>,
        effects |-> [NoEffects EXCEPT !.buildSpeed = 1500]],
    parallel_research |-> [era |-> 2, cost |-> 450, unlocked |-> FALSE,
        prerequisites |-> <<"orbital_mechanics", "material_science">>,
        effects |-> [NoEffects EXCEPT !.researchSlots = 1]],
    mercury_operations |-> [era |-> 2, cost |-> 700, unlocked |-> FALSE,
        prerequisites |-> <<"ion_propulsion", "material_science">>,
        effects |-> [NoEffects EXCEPT !.solarEfficiency = 1500]],
    solar_collectors_orbital |-> [era |-> 3, cost |-> 1500, unlocked |-> FALSE,
        prerequisites |-> <<"mercury_operations", "automated_construction">>,
        effects |-> [NoEffects EXCEPT !.energyProduction = 10000]],
    dyson_swarm_basics |-> [era |-> 3, cost |-> 2000, unlocked |-> FALSE,
        prerequisites |-> <<"solar_collectors_orbital">>,
        effects |-> NoEffects],
    self_replication |-> [era |-> 3, cost |-> 3000, unlocked |-> FALSE,
        prerequisites |-> <<"automated_construction", "dyson_swarm_basics">>,
        effects |-> [NoEffects EXCEPT !.productionMultiplier = 2000]],
    energy_transmission |-> [era |-> 3, cost |-> 2500, unlocked |-> FALSE,
        prerequisites |-> <<"solar_collectors_orbital">>,
        effects |-> NoEffects],
    mega_engineering |-> [era |-> 3, cost |-> 4000, unlocked |-> FALSE,
        prerequisites |-> <<"self_replication", "energy_transmission">>,
        effects |-> NoEffects],
    distributed_intelligence |-> [era |-> 3, cost |-> 3500, unlocked |-> FALSE,
        prerequisites |-> <<"self_replication">>,
        effects |-> [NoEffects EXCEPT !.researchEfficiency = 1250, !.researchSlots = 1]],
    dyson_swarm_advanced |-> [era |-> 4, cost |-> 10000, unlocked |-> FALSE,
        prerequisites |-> <<"mega_engineering", "dyson_swarm_basics">>,
        effects |-> [NoEffects EXCEPT !.dysonEfficiency = 2000]],
    antimatter_production |-> [era |-> 4, cost |-> 15000, unlocked |-> FALSE,
        prerequisites |-> <<"dyson_swarm_advanced">>,
        effects |-> NoEffects],
    stellar_engineering |-> [era |-> 4, cost |-> 25000, unlocked |-> FALSE,
        prerequisites |-> <<"antimatter_production">>,
        effects |-> NoEffects],
    matrioshka_brain |-> [era |-> 4, cost |-> 50000, unlocked |-> FALSE,
        prerequisites |-> <<"stellar_engineering", "dyson_swarm_advanced">>,
        effects |-> NoEffects],
    k2_completion |-> [era |-> 4, cost |-> 100000, unlocked |-> FALSE,
        prerequisites |-> <<"matrioshka_brain">>,
        effects |-> NoEffects] ]

MilestoneOrder ==
    << "first_launch",
    "first_solar",
    "first_station",
    "first_mining",
    "first_habitat",
    "capture_0001",
    "capture_001",
    "capture_01",
    "capture_05",
    "capture_10",
    "capture_25",
    "capture_50",
    "capture_75",
    "capture_100",
    "structures_10",
    "structures_50",
    "structures_100",
    "structures_500",
    "structures_1000",
    "dyson_100",
    "dyson_1000",
    "dyson_5000",
    "dyson_10000",
    "research_5",
    "research_10",
    "research_all",
    "era_2",
    "era_3",
    "era_4" >>

MILESTONES == [
    first_launch |-> [type |-> "structure_count", structureId |-> "launch_pad", count |-> 1, percent |-> 0, era |-> 0,
        reward |-> <<[type |-> "energy", amount |-> 100], [type |-> "materials", amount |-> 50]>>, isVictory |-> FALSE],
    first_solar |-> [type |-> "structure_count", structureId |-> "solar_collector", count |-> 1, percent |-> 0, era |-> 0,
        reward |-> <<[type |-> "energy", amount |-> 200]>>, isVictory |-> FALSE],
    first_station |-> [type |-> "structure_count", structureId |-> "space_station", count |-> 1, percent |-> 0, era |-> 0,
        reward |-> <<[type |-> "research", amount |-> 50]>>, isVictory |-> FALSE],
    first_mining |-> [type |-> "structure_count", structureId |-> "mining_outpost", count |-> 1, percent |-> 0, era |-> 0,
        reward |-> <<[type |-> "materials", amount |-> 200]>>, isVictory |-> FALSE],
    first_habitat |-> [type |-> "structure_count", structureId |-> "habitat_module", count |-> 1, percent |-> 0, era |-> 0,
        reward |-> <<[type |-> "energy", amount |-> 100], [type |-> "materials", amount |-> 100]>>, isVictory |-> FALSE],
    capture_0001 |-> [type |-> "solar_capture", structureId |-> "", count |-> 0, percent |-> 1, era |-> 0,
        reward |-> <<[type |-> "research", amount |-> 100]>>, isVictory |-> FALSE],
    capture_001 |-> [type |-> "solar_capture", structureId |-> "", count |-> 0, percent |-> 10, era |-> 0,
        reward |-> <<[type |-> "energy", amount |-> 5000], [type |-> "research", amount |-> 200]>>, isVictory |-> FALSE],
    capture_01 |-> [type |-> "solar_capture", structureId |-> "", count |-> 0, percent |-> 100, era |-> 0,
        reward |-> <<[type |-> "energy", amount |-> 20000], [type |-> "materials", amount |-> 10000], [type |-> "research", amount |-> 500]>>, isVictory |-> FALSE],
    capture_05 |-> [type |-> "solar_capture", structureId |-> "", count |-> 0, percent |-> 500, era |-> 0,
        reward |-> <<[type |-> "energy", amount |-> 100000], [type |-> "materials", amount |-> 50000]>>, isVictory |-> FALSE],
    capture_10 |-> [type |-> "solar_capture", structureId |-> "", count |-> 0, percent |-> 1000, era |-> 0,
        reward |-> <<[type |-> "energy", amount |-> 500000], [type |-> "materials", amount |-> 200000], [type |-> "research", amount |-> 2000]>>, isVictory |-> FALSE],
    capture_25 |-> [type |-> "solar_capture", structureId |-> "", count |-> 0, percent |-> 2500, era |-> 0,
        reward |-> <<[type |-> "energy", amount |-> 1000000], [type |-> "materials", amount |-> 500000]>>, isVictory |-> FALSE],
    capture_50 |-> [type |-> "solar_capture", structureId |-> "", count |-> 0, percent |-> 5000, era |-> 0,
        reward |-> <<[type |-> "energy", amount |-> 5000000], [type |-> "materials", amount |-> 2000000], [type |-> "research", amount |-> 10000]>>, isVictory |-> FALSE],
    capture_75 |-> [type |-> "solar_capture", structureId |-> "", count |-> 0, percent |-> 7500, era |-> 0,
        reward |-> <<[type |-> "energy", amount |-> 10000000], [type |-> "materials", amount |-> 5000000]>>, isVictory |-> FALSE],
    capture_100 |-> [type |-> "solar_capture", structureId |-> "", count |-> 0, percent |-> 10000, era |-> 0,
        reward |-> <<[type |-> "sandbox_mode", amount |-> 1]>>, isVictory |-> TRUE],
    structures_10 |-> [type |-> "total_structures", structureId |-> "", count |-> 10, percent |-> 0, era |-> 0,
        reward |-> <<[type |-> "materials", amount |-> 500]>>, isVictory |-> FALSE],
    structures_50 |-> [type |-> "total_structures", structureId |-> "", count |-> 50, percent |-> 0, era |-> 0,
        reward |-> <<[type |-> "materials", amount |-> 2000], [type |-> "energy", amount |-> 1000]>>, isVictory |-> FALSE],
    structures_100 |-> [type |-> "total_structures", structureId |-> "", count |-> 100, percent |-> 0, era |-> 0,
        reward |-> <<[type |-> "materials", amount |-> 5000], [type |-> "energy", amount |-> 3000]>>, isVictory |-> FALSE],
    structures_500 |-> [type |-> "total_structures", structureId |-> "", count |-> 500, percent |-> 0, era |-> 0,
        reward |-> <<[type |-> "materials", amount |-> 20000], [type |-> "energy", amount |-> 10000]>>, isVictory |-> FALSE],
    structures_1000 |-> [type |-> "total_structures", structureId |-> "", count |-> 1000, percent |-> 0, era |-> 0,
        reward |-> <<[type |-> "materials", amount |-> 50000], [type |-> "energy", amount |-> 25000], [type |-> "research", amount |-> 5000]>>, isVictory |-> FALSE],
    dyson_100 |-> [type |-> "structure_count", structureId |-> "dyson_satellite", count |-> 100, percent |-> 0, era |-> 0,
        reward |-> <<[type |-> "energy", amount |-> 10000]>>, isVictory |-> FALSE],
    dyson_1000 |-> [type |-> "structure_count", structureId |-> "dyson_satellite", count |-> 1000, percent |-> 0, era |-> 0,
        reward |-> <<[type |-> "energy", amount |-> 100000], [type |-> "materials", amount |-> 50000]>>, isVictory |-> FALSE],
    dyson_5000 |-> [type |-> "structure_count", structureId |-> "dyson_satellite", count |-> 5000, percent |-> 0, era |-> 0,
        reward |-> <<[type |-> "energy", amount |-> 500000], [type |-> "materials", amount |-> 200000]>>, isVictory |-> FALSE],
    dyson_10000 |-> [type |-> "structure_count", structureId |-> "dyson_satellite", count |-> 10000, percent |-> 0, era |-> 0,
        reward |-> <<[type |-> "energy", amount |-> 2000000], [type |-> "materials", amount |-> 1000000], [type |-> "research", amount |-> 50000]>>, isVictory |-> FALSE],
    research_5 |-> [type |-> "research_count", structureId |-> "", count |-> 5, percent |-> 0, era |-> 0,
        reward |-> <<[type |-> "research", amount |-> 200]>>, isVictory |-> FALSE],
    research_10 |-> [type |-> "research_count", structureId |-> "", count |-> 10, percent |-> 0, era |-> 0,
        reward |-> <<[type |-> "research", amount |-> 500]>>, isVictory |-> FALSE],
    research_all |-> [type |-> "all_research", structureId |-> "", count |-> 0, percent |-> 0, era |-> 0,
        reward |-> <<[type |-> "energy", amount |-> 1000000], [type |-> "materials", amount |-> 500000], [type |-> "research", amount |-> 100000]>>, isVictory |-> FALSE],
    era_2 |-> [type |-> "era", structureId |-> "", count |-> 0, percent |-> 0, era |-> 2,
        reward |-> <<[type |-> "energy", amount |-> 1000], [type |-> "materials", amount |-> 500], [type |-> "research", amount |-> 100]>>, isVictory |-> FALSE],
    era_3 |-> [type |-> "era", structureId |-> "", count |-> 0, percent |-> 0, era |-> 3,
        reward |-> <<[type |-> "energy", amount |-> 10000], [type |-> "materials", amount |-> 5000], [type |-> "research", amount |-> 1000]>>, isVictory |-> FALSE],
    era_4 |-> [type |-> "era", structureId |-> "", count |-> 0, percent |-> 0, era |-> 4,
        reward |-> <<[type |-> "energy", amount |-> 100000], [type |-> "materials", amount |-> 50000], [type |-> "research", amount |-> 10000]>>, isVictory |-> FALSE] ]

StructureIds == Range(StructureOrder)

TechIds == Range(TechOrder)

MilestoneIds == Range(MilestoneOrder)

\* ------------------------------------------------------------------ state
VARIABLES
    game,       \* the fields of the singletons the systems share, as one record:
                \*   StateManager.state: resources (1/RScale), production (per second, 1/RScale),
                \*     structures (id -> count, absent = 0), constructionQueue (items
                \*     [structureId, buildTime, progress] in ms), completedResearch,
                \*     researchQueue, researchProgressMap, maxResearchSlots, autoResearch,
                \*     currentEra, solarCapture (1/SCScale), claimedMilestones, flags, stats,
                \*     lastSaveAt ("null" or "set")
                \*   ResourceSystem: buildSpeed (modifiers.buildSpeed, 1/MScale), logistics
                \*   ConstructionSystem: autoBuildProgress (1/AutoBuildUnit)
                \*   ProgressionSystem: psResearchQueue, psResearchProgressMap (1/RScale)
                \*   StateManager.listeners: subscribers (systems whose init has subscribed),
                \*     emitted (events emitted so far: offline:progress and game:victory
                \*     counted, era:change as the eras announced in order, rewarded, the
                \*     milestones whose rewards ProgressionSystem.claimMilestone has granted,
                \*     offline_reports, the payloads of offline:progress in order, and
                \*     research_complete, the techIds of research:complete in order;
                \*     of the last emit over callbacks: delivered, its invocations in
                \*     order, contained, the exceptions it caught, escaped, whether one
                \*     left it),
                \*     callbacks (subscribers.get(key) for callbacks that are not the
                \*     systems' own: key -> array of callbacks)
    saved,      \* the snapshot found in localStorage at start, or "none"
    elapsedMs,  \* Date.now() - lastSaveAt of that snapshot, in ms
    pc,         \* the step of Game.init reached, then "running"
    ticks,      \* Game.update callbacks run this session
    commands,   \* player commands issued this session
    result      \* the last operation and the value it returned

vars == <<game, saved, elapsedMs, pc, ticks, commands, result>>

NoLogistics == [launchCapacity |-> 0, cargoCapacity |-> 0, population |-> 0,
    autoConstruction |-> 0, energyEfficiency |-> 0, dysonBonus |-> MScale,
    exoticMaterials |-> 0, antimatter |-> 0, energyStorage |-> 0, solarMatter |-> 0,
    computation |-> 0]

EmptyMap == [t \in {} |-> 0]

\* the keys of StateManager.subscribers used on the bus: two events and the wildcard
BusKeys == {"structure:built", "research:complete", "*"}

\* StateManager.getDefaultState, with the fields of ResourceSystem, ConstructionSystem and
\* ProgressionSystem as their constructors leave them.
DefaultState == [
    resources |-> STARTING_RESOURCES,
    production |-> BASE_PRODUCTION,
    structures |-> [s \in StructureIds |-> 0],
    constructionQueue |-> << >>,
    completedResearch |-> <<"basic_rocketry">>,
    researchQueue |-> << >>,
    researchProgressMap |-> EmptyMap,
    maxResearchSlots |-> 1,
    autoResearch |-> FALSE,
    currentEra |-> 1,
    solarCapture |-> 0,
    claimedMilestones |-> << >>,
    flags |-> [victoryAchieved |-> FALSE, sandboxMode |-> FALSE],
    stats |-> [totalResearchCompleted |-> 0, totalStructuresBuilt |-> 0, dysonSatellites |-> 0],
    lastSaveAt |-> "null",
    buildSpeed |-> MScale,
    logistics |-> NoLogistics,
    autoBuildProgress |-> 0,
    psResearchQueue |-> << >>,
    psResearchProgressMap |-> EmptyMap,
    subscribers |-> {},
    callbacks |-> [key \in BusKeys |-> << >>],
    emitted |-> [offline_progress |-> 0, game_victory |-> 0, era_change |-> << >>,
                 rewarded |-> << >>, offline_reports |-> << >>,
                 research_complete |-> << >>, delivered |-> << >>, contained |-> 0,
                 escaped |-> FALSE]]

\* --------------------------------------------------------- resource ledger
\* StateManager.addResource
addResource(st, type, amount) == [st EXCEPT !.resources[type] = @ + amount]

\* StateManager.spendResource: [ok, st]
spendResource(st, type, amount) ==
    IF st.resources[type] < amount
    THEN [ok |-> FALSE, st |-> st]
    ELSE [ok |-> TRUE, st |-> [st EXCEPT !.resources[type] = @ - amount]]

\* StateManager.canAfford; a cost bundle is the sequence of its {kind: amount} entries
canAfford(st, costs) ==
    \A i \in 1..Len(costs) : ~(st.resources[costs[i].type] < costs[i].amount * RScale)

RECURSIVE spendFrom(_, _, _)
\* the loop of ResourceSystem.spend from entry i on
spendFrom(st, costs, i) ==
    IF i > Len(costs)
    THEN [ok |-> TRUE, st |-> st]
    ELSE LET r == spendResource(st, costs[i].type, costs[i].amount * RScale)
         IN  IF ~r.ok THEN [ok |-> FALSE, st |-> r.st] ELSE spendFrom(r.st, costs, i + 1)

\* ResourceSystem.spend: [ok, st]
spend(st, costs) == spendFrom(st, costs, 1)

\* floor(rate * deltaTime / 1000): what a rate per second yields over deltaTime ms,
\* without leaving 32-bit integers
gain(rate, deltaTime) ==
    (rate \div MsPerSecond) * deltaTime
    + (rate % MsPerSecond) * (deltaTime \div MsPerSecond)
    + ((rate % MsPerSecond) * (deltaTime % MsPerSecond)) \div MsPerSecond

\* ResourceSystem.update: one tick of accumulation
resourceUpdate(st, deltaTime) ==
    LET e == IF st.production.energy > 0
             THEN addResource(st, "energy", gain(st.production.energy, deltaTime)) ELSE st
        m == IF st.production.materials > 0
             THEN addResource(e, "materials", gain(st.production.materials, deltaTime)) ELSE e
    IN  IF st.production.research > 0
        THEN addResource(m, "research", gain(st.production.research, deltaTime)) ELSE m

\* ------------------------------------------------------------ milestones
RECURSIVE SumSet(_, _)
SumSet(S, f) == IF S = {} THEN 0 ELSE LET x == CHOOSE y \in S : TRUE IN f[x] + SumSet(S \ {x}, f)

\* StateManager.getTotalStructures
getTotalStructures(st) == SumSet(StructureIds, st.structures)

\* checkMilestoneCondition
checkMilestoneCondition(id, st) ==
    LET c == MILESTONES[id]
    IN  CASE c.type = "structure_count" -> st.structures[c.structureId] >= c.count
          [] c.type = "total_structures" -> getTotalStructures(st) >= c.count
          [] c.type = "solar_capture" -> st.solarCapture >= c.percent
          [] c.type = "research_count" -> Len(st.completedResearch) >= c.count
          [] c.type = "all_research" -> Len(st.completedResearch) >= Cardinality(TechIds)
          [] c.type = "era" -> st.currentEra >= c.era
          [] OTHER -> FALSE

\* ProgressionSystem.triggerVictory
triggerVictory(st) ==
    [st EXCEPT !.flags.victoryAchieved = TRUE, !.emitted.game_victory = @ + 1]

RECURSIVE grantRewards(_, _, _)
\* the reward loop of ProgressionSystem.claimMilestone from entry i on
grantRewards(st, reward, i) ==
    IF i > Len(reward) THEN st
    ELSE grantRewards(
            IF reward[i].type = "sandbox_mode"
            THEN [st EXCEPT !.flags.sandboxMode = TRUE]
            ELSE addResource(st, reward[i].type, reward[i].amount * RScale),
            reward, i + 1)

\* a claimMilestone that takes every milestone for the victory milestone
claimMilestoneVictorious(st, id) ==
    IF Contains(st.claimedMilestones, id) THEN st
    ELSE triggerVictory(
            grantRewards([st EXCEPT !.claimedMilestones = Append(@, id),
                                    !.emitted.rewarded = Append(@, id)],
                         MILESTONES[id].reward, 1))

\* ProgressionSystem.claimMilestone over StateManager.claimMilestone
claimMilestone(st, id) ==
    IF Contains(st.claimedMilestones, id) THEN st
    ELSE LET claimed == [st EXCEPT !.claimedMilestones = Append(@, id)]
             rewarded == grantRewards([claimed EXCEPT !.emitted.rewarded = Append(@, id)],
                                      MILESTONES[id].reward, 1)
         IN  IF MILESTONES[id].isVictory THEN triggerVictory(rewarded) ELSE rewarded

\* getNewlyAchievedMilestones, in declaration order
getNewlyAchievedMilestones(st) ==
    LET New(id) == ~Contains(st.claimedMilestones, id) /\ checkMilestoneCondition(id, st)
    IN  SelectSeq(MilestoneOrder, New)

RECURSIVE claimAll(_, _, _)
claimAll(st, ids, i) ==
    IF i > Len(ids) THEN st ELSE claimAll(claimMilestone(st, ids[i]), ids, i + 1)

\* claiming without the claimed-set check of StateManager.claimMilestone
RECURSIVE reclaimAll(_, _, _)
reclaimAll(st, ids, i) ==
    IF i > Len(ids) THEN st
    ELSE reclaimAll(
            grantRewards([st EXCEPT !.claimedMilestones = Append(@, ids[i]),
                                    !.emitted.rewarded = Append(@, ids[i])],
                         MILESTONES[ids[i]].reward, 1),
            ids, i + 1)

\* a checkMilestones that claims every satisfied milestone, claimed before or not
checkMilestonesReclaiming(st) ==
    LET Achieved(id) == checkMilestoneCondition(id, st)
    IN  reclaimAll(st, SelectSeq(MilestoneOrder, Achieved), 1)

\* ProgressionSystem.checkMilestones
checkMilestones(st) == claimAll(st, getNewlyAchievedMilestones(st), 1)

\* a setSolarCapture that stores the value it is given, unclamped
setSolarCaptureUnclamped(st, percent) ==
    IF percent # st.solarCapture /\ "ProgressionSystem" \in st.subscribers
    THEN checkMilestones([st EXCEPT !.solarCapture = percent])
    ELSE [st EXCEPT !.solarCapture = percent]

\* StateManager.setSolarCapture; its solar:capture event runs ProgressionSystem's listener
setSolarCapture(st, percent) ==
    LET new == Min(SCScale, Max(0, percent))
        set == [st EXCEPT !.solarCapture = new]
    IN  IF new # st.solarCapture /\ "ProgressionSystem" \in st.subscribers
        THEN checkMilestones(set) ELSE set

\* ---------------------------------------------------- production calculator
\* structure types whose energy counts as Dyson energy: "if (prod.solarCapture)"
TiedToSolarCapture == {s \in StructureIds : STRUCTURES[s].production.solarCapture # 0}

\* sum of field * count over the structure types of kinds with count > 0
contribution(st, field, kinds) ==
    SumSet({s \in kinds : st.structures[s] > 0},
           [s \in StructureIds |-> STRUCTURES[s].production[field] * st.structures[s]])

\* the effects getTechModifiers reads for each modifier, in the order it reads them
ModifierEffects ==
    [energy |-> <<"energyGeneration", "energyProduction", "solarEfficiency",
                  "productionMultiplier">>,
     materials |-> <<"materialProduction", "productionMultiplier">>,
     research |-> <<"researchEfficiency", "productionMultiplier">>,
     buildSpeed |-> <<"buildSpeed", "constructionEfficiency">>,
     dysonEfficiency |-> <<"dysonEfficiency">>]

\* the values of these effects the loop of getTechModifiers meets, in its order: the
\* completed technologies in list order and, for each, the effects in reading order
effectsMet(completed, fields) ==
    [k \in 1..(Len(completed) * Len(fields)) |->
        IF completed[((k - 1) \div Len(fields)) + 1] \in TechIds
        THEN TECH_TREE[completed[((k - 1) \div Len(fields)) + 1]].effects[
                fields[((k - 1) % Len(fields)) + 1]]
        ELSE 0]

\* "if (effects.x) modifier *= effects.x": the effects that multiply the modifier
effectsApplied(completed, fields) ==
    LET Set(effect) == effect # 0
    IN  SelectSeq(effectsMet(completed, fields), Set)

RECURSIVE multiplied(_, _)
\* the modifier after the first n multiplications, from its initial value 1.0
multiplied(effects, n) ==
    IF n = 0 THEN MScale ELSE Mul(multiplied(effects, n - 1), effects[n])

\* one modifier of getTechModifiers
techModifier(completed, name) ==
    multiplied(effectsApplied(completed, ModifierEffects[name]),
               Len(effectsApplied(completed, ModifierEffects[name])))

\* ResourceSystem.getTechModifiers
getTechModifiers(completed) ==
    [name \in DOMAIN ModifierEffects |-> techModifier(completed, name)]

\* the accumulation loop of recalculateProduction over state.structures: what the
\* structures owned contribute to each production field
structureTotals(st) ==
    [energy |-> contribution(st, "energy", StructureIds \ TiedToSolarCapture),
     energyFromDyson |-> contribution(st, "energy", TiedToSolarCapture),
     materials |-> contribution(st, "materials", StructureIds),
     research |-> contribution(st, "research", StructureIds),
     buildSpeedBonus |-> contribution(st, "buildSpeedBonus", StructureIds),
     solarCapture |-> contribution(st, "solarCapture", StructureIds),
     launchCapacity |-> contribution(st, "launchCapacity", StructureIds),
     cargoCapacity |-> contribution(st, "cargoCapacity", StructureIds),
     population |-> contribution(st, "population", StructureIds),
     autoConstruction |-> contribution(st, "autoConstruction", StructureIds),
     energyEfficiency |-> contribution(st, "energyEfficiency", StructureIds),
     dysonBonus |-> MScale
        + SumSet({s \in StructureIds :
                    st.structures[s] > 0 /\ STRUCTURES[s].production.dysonBonus # 0},
                 [s \in StructureIds |->
                    (STRUCTURES[s].production.dysonBonus - MScale) * st.structures[s]]),
     exoticMaterials |-> contribution(st, "exoticMaterials", StructureIds),
     antimatter |-> contribution(st, "antimatter", StructureIds),
     energyStorage |-> contribution(st, "energyStorage", StructureIds),
     solarMatter |-> contribution(st, "solarMatter", StructureIds),
     computation |-> contribution(st, "computation", StructureIds)]

\* the energy, materials and research modifiers of recalculateProduction;
\* this.modifiers.energy, .materials and .research stay at their constructor value 1.0
energyModifier(t, tech) ==
    Mul(Mul(Mul(Mul(MScale, tech.energy), MScale + t.energyEfficiency),
        MScale + t.antimatter * 100), MScale + t.energyStorage \div 100)

materialsModifier(t, tech) ==
    Mul(Mul(Mul(Mul(MScale, tech.materials), MScale + (t.cargoCapacity * MScale) \div 1000),
        MScale + t.exoticMaterials * 20), MScale + t.solarMatter * 5)

researchModifier(t, tech) ==
    Mul(Mul(Mul(MScale, tech.research), MScale + (t.population * MScale) \div 10000),
        MScale + t.computation \div 4000)

dysonModifier(t, tech) == Mul(t.dysonBonus, tech.dysonEfficiency)

\* the rates recalculateProduction stores in state.production
productionRates(t, tech) ==
    [energy |-> Mul(BASE_PRODUCTION.energy + RScale * t.energy, energyModifier(t, tech))
        + Mul(Mul(RScale * t.energyFromDyson, energyModifier(t, tech)), dysonModifier(t, tech)),
     materials |-> Mul(BASE_PRODUCTION.materials + RScale * t.materials,
                       materialsModifier(t, tech)),
     research |-> Mul(BASE_PRODUCTION.research + RScale * t.research,
                      researchModifier(t, tech))]

\* what recalculateProduction stores in this.logistics
logisticsOf(t) ==
    [launchCapacity |-> t.launchCapacity, cargoCapacity |-> t.cargoCapacity,
     population |-> t.population, autoConstruction |-> t.autoConstruction,
     energyEfficiency |-> t.energyEfficiency, dysonBonus |-> t.dysonBonus,
     exoticMaterials |-> t.exoticMaterials, antimatter |-> t.antimatter,
     energyStorage |-> t.energyStorage, solarMatter |-> t.solarMatter,
     computation |-> t.computation]

\* the stores of recalculateProduction, in its order: modifiers.buildSpeed,
\* state.production, setSolarCapture (whose listeners run), this.logistics
storeProduction(st, t, tech) ==
    [setSolarCapture(
        [st EXCEPT
            !.buildSpeed = Mul(MScale + t.buildSpeedBonus + t.launchCapacity * 20,
                               tech.buildSpeed),
            !.production = productionRates(t, tech)],
        Mul(t.solarCapture, dysonModifier(t, tech)))
     EXCEPT !.logistics = logisticsOf(t)]

\* a recompute that multiplies the build speed it finds instead of replacing it
recalculateProductionCompounding(st) ==
    [storeProduction(st, structureTotals(st), getTechModifiers(st.completedResearch))
        EXCEPT !.buildSpeed = Mul(st.buildSpeed, @)]

\* ResourceSystem.recalculateProduction
recalculateProduction(st) ==
    storeProduction(st, structureTotals(st), getTechModifiers(st.completedResearch))

\* ProgressionSystem's listener of structure:built
progressionOnStructureBuilt(st) ==
    IF "ProgressionSystem" \in st.subscribers THEN checkMilestones(st) ELSE st

\* the listeners of structure:built, in subscription order
emitStructureBuilt(st) ==
    progressionOnStructureBuilt(
        IF "ResourceSystem" \in st.subscribers THEN recalculateProduction(st) ELSE st)

\* an addStructure that leaves stats.totalStructuresBuilt alone
addStructureUncounted(st, structureId) ==
    LET count == st.structures[structureId] + 1
        added == [st EXCEPT !.structures[structureId] = count,
                            !.stats.dysonSatellites =
                                IF structureId = "dyson_satellite" THEN count ELSE @]
    IN  emitStructureBuilt(added)

\* StateManager.addStructure
addStructure(st, structureId) ==
    LET count == st.structures[structureId] + 1
        added == [st EXCEPT !.structures[structureId] = count,
                            !.stats.totalStructuresBuilt = @ + 1,
                            !.stats.dysonSatellites =
                                IF structureId = "dyson_satellite" THEN count ELSE @]
    IN  emitStructureBuilt(added)

\* ---------------------------------------------------- construction scheduler
\* one whole auto-built item, in the unit of autoBuildProgress:
\* (autoConstructionRate / 60) * deltaTime counted as rate * ms
AutoBuildUnit == 60 * MsPerSecond

\* a getMaxQueueSize that counts the launch capacity twice
getMaxQueueSizeDoubled(st) == baseQueueSize + 2 * st.logistics.launchCapacity

\* ConstructionSystem.getMaxQueueSize
getMaxQueueSize(st) == baseQueueSize + st.logistics.launchCapacity

\* a getQueuedCount that forgets the items waiting in the queue
getQueuedCountBuiltOnly(st, structureId) == 0

\* ConstructionSystem.getQueuedCount
getQueuedCount(st, structureId) ==
    Cardinality({i \in 1..Len(st.constructionQueue) :
        st.constructionQueue[i].structureId = structureId})

\* StateManager.isResearched
isResearched(st, techId) == Contains(st.completedResearch, techId)

\* a build that looks at the queue before the ledger
buildReasonQueueFirst(st, structureId) ==
    IF structureId \notin StructureIds THEN "unknown_structure"
    ELSE IF ~isResearched(st, STRUCTURES[structureId].requiresTech) THEN "tech_not_unlocked"
    ELSE IF STRUCTURES[structureId].hasLimit
            /\ st.structures[structureId] + getQueuedCount(st, structureId)
                   >= STRUCTURES[structureId].limit
         THEN "limit_reached"
    ELSE IF Len(st.constructionQueue) >= getMaxQueueSize(st) THEN "queue_full"
    ELSE IF ~canAfford(st, STRUCTURES[structureId].cost) THEN "cannot_afford"
    ELSE "success"

\* the reason ConstructionSystem.build returns, "success" when it builds
buildReason(st, structureId) ==
    IF structureId \notin StructureIds THEN "unknown_structure"
    ELSE LET structure == STRUCTURES[structureId]
         IN  IF ~isResearched(st, structure.requiresTech) THEN "tech_not_unlocked"
             ELSE IF structure.hasLimit
                     /\ st.structures[structureId] + getQueuedCount(st, structureId)
                            >= structure.limit
                  THEN "limit_reached"
             ELSE IF ~canAfford(st, structure.cost) THEN "cannot_afford"
             ELSE IF Len(st.constructionQueue) >= getMaxQueueSize(st) THEN "queue_full"
             ELSE "success"

\* the queueItem of ConstructionSystem.build; buildTime in ms
queueItem(structureId) ==
    [structureId |-> structureId,
     buildTime |-> STRUCTURES[structureId].buildTime * MsPerSecond,
     progress |-> 0]

RECURSIVE chargeFrom(_, _, _)
\* a deduction loop with no balance test
chargeFrom(st, costs, i) ==
    IF i > Len(costs) THEN st
    ELSE chargeFrom([st EXCEPT !.resources[costs[i].type] = @ - costs[i].amount * RScale],
                    costs, i + 1)

\* a build that queues any known structure and charges it without testing the ledger
buildOnCredit(st, structureId) ==
    IF structureId \notin StructureIds THEN st
    ELSE [chargeFrom(st, STRUCTURES[structureId].cost, 1) EXCEPT
            !.constructionQueue = Append(@, queueItem(structureId))]

\* a build that starts spending before it knows the bundle is affordable
buildSpendFirst(st, structureId) ==
    IF buildReason(st, structureId) \notin {"success", "cannot_afford"} THEN st
    ELSE IF spend(st, STRUCTURES[structureId].cost).ok
         THEN [spend(st, STRUCTURES[structureId].cost).st EXCEPT
                 !.constructionQueue = Append(@, queueItem(structureId))]
         ELSE spend(st, STRUCTURES[structureId].cost).st

\* the state ConstructionSystem.build leaves
build(st, structureId) ==
    IF buildReason(st, structureId) # "success" THEN st
    ELSE [spend(st, STRUCTURES[structureId].cost).st EXCEPT
            !.constructionQueue = Append(@, queueItem(structureId))]

\* the queue after its head left, the excess progress of the head moved to the new head
carryOver(queue) ==
    IF Len(queue) > 1 /\ queue[1].progress > queue[1].buildTime
    THEN [Tail(queue) EXCEPT ![1].progress = queue[1].progress - queue[1].buildTime]
    ELSE Tail(queue)

\* a completeConstruction that hands the head's excess progress to the next item
completeConstructionCarrying(st) ==
    addStructure([st EXCEPT !.constructionQueue = carryOver(@)],
                 st.constructionQueue[1].structureId)

\* ConstructionSystem.completeConstruction of the head item
completeConstruction(st) ==
    LET item == Head(st.constructionQueue)
        removed == [st EXCEPT !.constructionQueue = Tail(@)]
    IN  addStructure(removed, item.structureId)

RECURSIVE autoCompleteUnpaid(_)
\* a loop that completes items without taking them off the counter
autoCompleteUnpaid(st) ==
    IF st.autoBuildProgress >= AutoBuildUnit /\ Len(st.constructionQueue) > 0
    THEN autoCompleteUnpaid(completeConstruction(st))
    ELSE st

RECURSIVE autoComplete(_)
\* the while loop of applyAutoConstruction
autoComplete(st) ==
    IF st.autoBuildProgress >= AutoBuildUnit /\ Len(st.constructionQueue) > 0
    THEN autoComplete([completeConstruction(st) EXCEPT !.autoBuildProgress = @ - AutoBuildUnit])
    ELSE st

\* ConstructionSystem.applyAutoConstruction
applyAutoConstruction(st, deltaTime) ==
    IF Len(st.constructionQueue) = 0 THEN st
    ELSE IF st.logistics.autoConstruction <= 0 THEN st
    ELSE autoComplete([st EXCEPT !.autoBuildProgress =
                            @ + st.logistics.autoConstruction * deltaTime])

\* "if (current.progress >= current.buildTime) this.completeConstruction(current)"
completeIfBuilt(st) ==
    IF st.constructionQueue[1].progress >= st.constructionQueue[1].buildTime
    THEN completeConstruction(st) ELSE st

\* a progressHead that advances a detached copy of the head: nothing is stored
progressHeadDetached(st, deltaTime) ==
    IF Len(st.constructionQueue) = 0 THEN st
    ELSE IF st.constructionQueue[1].progress + (deltaTime * st.buildSpeed) \div MScale
                >= st.constructionQueue[1].buildTime
         THEN completeConstruction(st) ELSE st

\* the head's progress in ConstructionSystem.update
progressHead(st, deltaTime) ==
    IF Len(st.constructionQueue) = 0 THEN st
    ELSE completeIfBuilt(
            [st EXCEPT !.constructionQueue[1].progress =
                            @ + (deltaTime * st.buildSpeed) \div MScale])

\* ConstructionSystem.update
constructionUpdate(st, deltaTime) ==
    applyAutoConstruction(progressHead(st, deltaTime), deltaTime)

\* a refundMultiplier that pays half whatever the progress
refundMultiplierHalf(item) == 500

\* refundMultiplier of ConstructionSystem.cancel, in 1/MScale
refundMultiplier(item) == IF item.progress > 0 THEN 500 ELSE 1000

RECURSIVE refundFrom(_, _, _, _)
\* the refund loop of ConstructionSystem.cancel: Math.floor(amount * refundMultiplier)
refundFrom(st, costs, multiplier, i) ==
    IF i > Len(costs) THEN st
    ELSE refundFrom(
            addResource(st, costs[i].type, ((costs[i].amount * multiplier) \div MScale) * RScale),
            costs, multiplier, i + 1)

\* whether ConstructionSystem.cancel(index) cancels; index is 0-based as in the code
cancelOk(st, index) == ~(index < 0 \/ index >= Len(st.constructionQueue))

\* the state ConstructionSystem.cancel leaves
cancel(st, index) ==
    IF ~cancelOk(st, index) THEN st
    ELSE LET item == st.constructionQueue[index + 1]
             refunded == refundFrom(st, STRUCTURES[item.structureId].cost,
                                    refundMultiplier(item), 1)
         IN  [refunded EXCEPT !.constructionQueue = RemoveAt(@, index + 1)]

RECURSIVE bulkFrom(_, _, _, _)
\* the loop of ConstructionSystem.bulkBuild: [st, results]
bulkFrom(st, structureId, count, results) ==
    IF Len(results) >= count THEN [st |-> st, results |-> results]
    ELSE LET reason == buildReason(st, structureId)
             next == Append(results, reason)
         IN  IF reason # "success"
             THEN [st |-> build(st, structureId), results |-> next]
             ELSE bulkFrom(build(st, structureId), structureId, count, next)

\* ConstructionSystem.bulkBuild
bulkBuild(st, structureId, count) == bulkFrom(st, structureId, count, << >>)

\* ------------------------------------------------------- research scheduler
\* StateManager.canResearch
canResearch(st, techId) ==
    /\ techId \in TechIds
    /\ ~isResearched(st, techId)
    /\ \A i \in 1..Len(TECH_TREE[techId].prerequisites) :
            isResearched(st, TECH_TREE[techId].prerequisites[i])

\* ProgressionSystem.syncStateWithQueue
syncStateWithQueue(st) ==
    [st EXCEPT !.researchQueue = st.psResearchQueue,
               !.researchProgressMap = st.psResearchProgressMap]

\* a startResearch test that forgets the research slots
startResearchOkAnySlots(st, techId) ==
    /\ techId \in TechIds
    /\ ~isResearched(st, techId)
    /\ ~Contains(st.psResearchQueue, techId)
    /\ canResearch(st, techId)

\* a startResearch test that forgets the prerequisites
startResearchOkAnyPrerequisites(st, techId) ==
    /\ techId \in TechIds
    /\ ~isResearched(st, techId)
    /\ ~Contains(st.psResearchQueue, techId)
    /\ ~(Len(st.psResearchQueue) >= st.maxResearchSlots)

\* whether ProgressionSystem.startResearch returns true
startResearchOk(st, techId) ==
    /\ techId \in TechIds
    /\ ~isResearched(st, techId)
    /\ ~Contains(st.psResearchQueue, techId)
    /\ canResearch(st, techId)
    /\ ~(Len(st.psResearchQueue) >= st.maxResearchSlots)

\* with(map, key, value): map[key] = value
MapPut(map, key, value) ==
    [k \in DOMAIN map \cup {key} |-> IF k = key THEN value ELSE map[k]]

\* delete map[key]
MapDelete(map, key) == [k \in DOMAIN map \ {key} |-> map[k]]

\* map[key] || 0
MapGet(map, key) == IF key \in DOMAIN map THEN map[key] ELSE 0

\* the state ProgressionSystem.startResearch leaves
startResearch(st, techId) ==
    IF ~startResearchOk(st, techId) THEN st
    ELSE syncStateWithQueue(
            [st EXCEPT !.psResearchQueue = Append(@, techId),
                       !.psResearchProgressMap = MapPut(@, techId, 0)])

\* getAvailableTechs of techTree.js, in declaration order
getAvailableTechs(completed) ==
    LET Available(t) ==
            /\ ~Contains(completed, t)
            /\ \/ TECH_TREE[t].unlocked
               \/ \A i \in 1..Len(TECH_TREE[t].prerequisites) :
                      Contains(completed, TECH_TREE[t].prerequisites[i])
    IN  SelectSeq(TechOrder, Available)

\* an auto-research that starts the last available technology
tryAutoResearchLast(st) ==
    IF ~st.autoResearch THEN st
    ELSE IF Len(st.psResearchQueue) >= st.maxResearchSlots THEN st
    ELSE LET NotQueued(t) == ~Contains(st.psResearchQueue, t)
         IN  IF Len(SelectSeq(getAvailableTechs(st.completedResearch), NotQueued)) = 0 THEN st
             ELSE startResearch(st,
                    SelectSeq(getAvailableTechs(st.completedResearch), NotQueued)[
                        Len(SelectSeq(getAvailableTechs(st.completedResearch), NotQueued))])

\* ProgressionSystem.tryAutoResearch
tryAutoResearch(st) ==
    IF ~st.autoResearch THEN st
    ELSE IF Len(st.psResearchQueue) >= st.maxResearchSlots THEN st
    ELSE LET NotQueued(t) == ~Contains(st.psResearchQueue, t)
             availableTechs == SelectSeq(getAvailableTechs(st.completedResearch), NotQueued)
         IN  IF Len(availableTechs) = 0 THEN st ELSE startResearch(st, availableTechs[1])

\* ProgressionSystem's listener of research:complete
progressionOnResearchComplete(st) ==
    IF "ProgressionSystem" \in st.subscribers THEN tryAutoResearch(checkMilestones(st)) ELSE st

\* research:complete with ProgressionSystem's listener only: no recompute
emitResearchCompleteNoRecompute(st) == progressionOnResearchComplete(st)

\* the listeners of research:complete, in subscription order
emitResearchComplete(st) ==
    progressionOnResearchComplete(
        IF "ResourceSystem" \in st.subscribers THEN recalculateProduction(st) ELSE st)

\* StateManager.completeResearch
stateCompleteResearch(st, techId) ==
    IF Contains(st.completedResearch, techId) THEN st
    ELSE emitResearchComplete(
            [st EXCEPT !.completedResearch = Append(@, techId),
                       !.stats.totalResearchCompleted = @ + 1,
                       !.emitted.research_complete = Append(@, techId)])

\* an addResearchSlot loop that runs once too often ("i <= researchSlots")
addResearchSlotsInclusive(st, n) ==
    IF n > 0 THEN [st EXCEPT !.maxResearchSlots = @ + n + 1] ELSE st

\* ProgressionSystem.addResearchSlot, called effects.researchSlots times
addResearchSlots(st, n) == [st EXCEPT !.maxResearchSlots = @ + n]

\* a dequeue that deletes the progress entry and leaves the tech in the queue
dequeueResearchKeeping(st, techId) ==
    [st EXCEPT !.psResearchProgressMap = MapDelete(@, techId)]

\* "this.researchQueue.splice(index, 1); delete this.researchProgressMap[techId]"
dequeueResearch(st, techId) ==
    [st EXCEPT
        !.psResearchQueue = IF Contains(@, techId) THEN RemoveAt(@, IndexOf(@, techId)) ELSE @,
        !.psResearchProgressMap = MapDelete(@, techId)]

\* ProgressionSystem.completeResearch
completeResearch(st, techId) ==
    IF techId \notin TechIds THEN st
    ELSE addResearchSlots(
            syncStateWithQueue(stateCompleteResearch(dequeueResearch(st, techId), techId)),
            TECH_TREE[techId].effects.researchSlots)

RECURSIVE completeAllBackwards(_, _, _)
\* a completion loop that walks the completed list from its end
completeAllBackwards(st, ids, i) ==
    IF i > Len(ids) THEN st
    ELSE completeResearch(completeAllBackwards(st, ids, i + 1), ids[i])

RECURSIVE completeAll(_, _, _)
completeAll(st, ids, i) ==
    IF i > Len(ids) THEN st ELSE completeAll(completeResearch(st, ids[i]), ids, i + 1)

\* a progressAllResearch that gives every technology the whole rate, undivided
progressAllResearchUndivided(st, deltaTime) ==
    IF Len(st.psResearchQueue) = 0 THEN st
    ELSE IF st.production.research <= 0 THEN st
    ELSE LET queue == st.psResearchQueue
             step == (st.production.research * deltaTime) \div MsPerSecond
             progressed == [t \in DOMAIN st.psResearchProgressMap \cup Range(queue) |->
                 IF t \in Range(queue) /\ t \in TechIds
                 THEN MapGet(st.psResearchProgressMap, t) + step
                 ELSE st.psResearchProgressMap[t]]
             Done(t) == t \in TechIds /\ progressed[t] >= TECH_TREE[t].cost * RScale
             completed == SelectSeq(queue, Done)
         IN  syncStateWithQueue(
                completeAll([st EXCEPT !.psResearchProgressMap = progressed], completed, 1))

\* a progressAllResearch that spends the whole rate on the first technology started
progressAllResearchFirstOnly(st, deltaTime) ==
    IF Len(st.psResearchQueue) = 0 THEN st
    ELSE IF st.production.research <= 0 THEN st
    ELSE LET queue == st.psResearchQueue
             step == (st.production.research * deltaTime) \div MsPerSecond
             progressed == [t \in DOMAIN st.psResearchProgressMap \cup Range(queue) |->
                 IF t = queue[1] /\ t \in TechIds
                 THEN MapGet(st.psResearchProgressMap, t) + step
                 ELSE MapGet(st.psResearchProgressMap, t)]
             Done(t) == t \in TechIds /\ progressed[t] >= TECH_TREE[t].cost * RScale
             completed == SelectSeq(queue, Done)
         IN  syncStateWithQueue(
                completeAll([st EXCEPT !.psResearchProgressMap = progressed], completed, 1))

\* ProgressionSystem.progressAllResearch: progress in 1/RScale research points
progressAllResearch(st, deltaTime) ==
    IF Len(st.psResearchQueue) = 0 THEN st
    ELSE IF st.production.research <= 0 THEN st
    ELSE LET queue == st.psResearchQueue
             step == (st.production.research * deltaTime) \div (Len(queue) * MsPerSecond)
             progressed == [t \in DOMAIN st.psResearchProgressMap \cup Range(queue) |->
                 IF t \in Range(queue) /\ t \in TechIds
                 THEN MapGet(st.psResearchProgressMap, t) + step
                 ELSE st.psResearchProgressMap[t]]
             Done(t) == t \in TechIds /\ progressed[t] >= TECH_TREE[t].cost * RScale
             completed == SelectSeq(queue, Done)
         IN  syncStateWithQueue(
                completeAll([st EXCEPT !.psResearchProgressMap = progressed], completed, 1))

\* StateManager.setEra
setEra(st, era) ==
    IF era > st.currentEra
    THEN [st EXCEPT !.currentEra = era, !.emitted.era_change = Append(@, era)]
    ELSE st

RECURSIVE eraFromOneStep(_, _, _)
\* an era loop that stops at the first era it advances to
eraFromOneStep(st, era, read) ==
    IF era > 4 THEN st
    ELSE IF era > read.currentEra /\ read.solarCapture >= ERAS[era] THEN setEra(st, era)
    ELSE eraFromOneStep(st, era + 1, read)

RECURSIVE eraFrom(_, _, _)
\* the loop of ProgressionSystem.checkEraProgression over CONFIG.ERAS, ascending;
\* currentEra and solarCapture are read once, before the loop
eraFrom(st, era, read) ==
    IF era > 4 THEN st
    ELSE eraFrom(IF era > read.currentEra /\ read.solarCapture >= ERAS[era]
                 THEN setEra(st, era) ELSE st,
                 era + 1, read)

\* a checkEraProgression that sets the era of the current solar capture, whatever
\* the current era is
checkEraProgressionUnguarded(st) ==
    [st EXCEPT !.currentEra =
        CHOOSE e \in 1..4 :
            /\ st.solarCapture >= ERAS[e]
            /\ \A higher \in (e + 1)..4 : st.solarCapture < ERAS[higher]]

\* ProgressionSystem.checkEraProgression
checkEraProgression(st) ==
    eraFrom(st, 1, [currentEra |-> st.currentEra, solarCapture |-> st.solarCapture])

\* ProgressionSystem.update
progressionUpdate(st, deltaTime) ==
    tryAutoResearch(checkEraProgression(
        IF Len(st.psResearchQueue) > 0 THEN progressAllResearch(st, deltaTime) ELSE st))

\* ProgressionSystem.setAutoResearch
setAutoResearch(st, enabled) ==
    LET set == [st EXCEPT !.autoResearch = enabled]
    IN  IF enabled THEN tryAutoResearch(set) ELSE set

\* a cancel that takes the technology off the queue and keeps its progress entry
cancelResearchKeepingProgress(st, techId) ==
    IF IndexOf(st.psResearchQueue, techId) = 0 THEN st
    ELSE syncStateWithQueue(
            [st EXCEPT !.psResearchQueue = RemoveAt(@, IndexOf(st.psResearchQueue, techId))])

\* ProgressionSystem.cancelResearch
cancelResearch(st, techId) ==
    LET index == IndexOf(st.psResearchQueue, techId)
    IN  IF index = 0 THEN st
        ELSE syncStateWithQueue(
                [st EXCEPT !.psResearchQueue = RemoveAt(@, index),
                           !.psResearchProgressMap = MapDelete(@, techId)])

\* a Game.update that runs the research step before the construction step
gameUpdateResearchFirst(st, deltaTime) ==
    constructionUpdate(progressionUpdate(resourceUpdate(st, deltaTime), deltaTime), deltaTime)

\* Game.update with the game running: the systems in the order main.js calls them
gameUpdate(st, deltaTime) ==
    progressionUpdate(constructionUpdate(resourceUpdate(st, deltaTime), deltaTime), deltaTime)

\* -------------------------------------------------------- offline reconciler
MaxOfflineMs == MAX_OFFLINE_HOURS * 60 * 60 * MsPerSecond

\* an offline reconciler with no shortest gap
timeManagerOfflineAnyGap(st, elapsed) ==
    IF st.lastSaveAt = "null" THEN st
    ELSE [st EXCEPT
            !.resources = [k \in DOMAIN @ |->
                @[k] + gain(st.production[k],
                            Mul(Min(elapsed, MaxOfflineMs), OFFLINE_EFFICIENCY))],
            !.emitted.offline_progress = @ + 1,
            !.emitted.offline_reports =
                Append(@, [by |-> "TimeManager", offlineMs |-> Min(elapsed, MaxOfflineMs),
                           wasMaxed |-> "undefined"])]

\* TimeManager.calculateOfflineProgress; elapsed = Date.now() - state.lastSaveAt in ms
timeManagerOffline(st, elapsed) ==
    IF st.lastSaveAt = "null" THEN st
    ELSE LET offlineMs == Min(elapsed, MaxOfflineMs)
         IN  IF offlineMs < MinOfflineMs THEN st
             ELSE LET effectiveMs == Mul(offlineMs, OFFLINE_EFFICIENCY)
                      Gain(k) == gain(st.production[k], effectiveMs)
                      e == IF Gain("energy") > 0
                           THEN addResource(st, "energy", Gain("energy")) ELSE st
                      m == IF Gain("materials") > 0
                           THEN addResource(e, "materials", Gain("materials")) ELSE e
                      r == IF Gain("research") > 0
                           THEN addResource(m, "research", Gain("research")) ELSE m
                  IN  [r EXCEPT !.emitted.offline_progress = @ + 1,
                                !.emitted.offline_reports =
                                    Append(@, [by |-> "TimeManager", offlineMs |-> offlineMs,
                                               wasMaxed |-> "undefined"])]

\* IdleAccumulator.calculateOfflineProgress: gains floored to whole units
idleOffline(st, elapsed) ==
    IF st.lastSaveAt = "null" THEN st
    ELSE IF elapsed < MinOfflineMs THEN st
    ELSE LET offlineMs == Min(elapsed, MaxOfflineMs)
             effectiveMs == Mul(offlineMs, OFFLINE_EFFICIENCY)
             Gain(k) == (gain(st.production[k], effectiveMs) \div RScale) * RScale
             e == IF Gain("energy") > 0
                  THEN addResource(st, "energy", Gain("energy")) ELSE st
             m == IF Gain("materials") > 0
                  THEN addResource(e, "materials", Gain("materials")) ELSE e
             r == IF Gain("research") > 0
                  THEN addResource(m, "research", Gain("research")) ELSE m
         IN  [r EXCEPT !.emitted.offline_progress = @ + 1,
                       !.emitted.offline_reports =
                           Append(@, [by |-> "IdleAccumulator", offlineMs |-> offlineMs,
                                      wasMaxed |-> IF offlineMs >= MaxOfflineMs
                                                   THEN "true" ELSE "false"])]

\* ------------------------------------------------------------- the event bus
\* callbacks handed to subscribe, named by what they do when invoked; faulty throws
Callbacks == {"save", "faulty"}

Throwing == {"faulty"}

\* StateManager.subscribe(key, callback)
subscribe(st, key, callback) == [st EXCEPT !.callbacks[key] = Append(@, callback)]

\* the function subscribe returned: indexOf and splice
unsubscribe(st, key, callback) ==
    IF IndexOf(st.callbacks[key], callback) = 0 THEN st
    ELSE [st EXCEPT !.callbacks[key] = RemoveAt(@, IndexOf(st.callbacks[key], callback))]

\* one pass of a loop of emit: try { callback(payload) } catch { console.error }
invoke(st, callback, event, wildcard) ==
    [st EXCEPT !.emitted.delivered =
                    Append(@, [callback |-> callback, event |-> event, wildcard |-> wildcard]),
               !.emitted.contained = IF callback \in Throwing THEN @ + 1 ELSE @]

RECURSIVE invokeAllUncaught(_, _, _, _, _)
\* a loop with no try: the first exception leaves it
invokeAllUncaught(st, list, i, event, wildcard) ==
    IF i > Len(list) \/ st.emitted.escaped THEN st
    ELSE invokeAllUncaught(
            [st EXCEPT !.emitted.delivered =
                            Append(@, [callback |-> list[i], event |-> event,
                                       wildcard |-> wildcard]),
                       !.emitted.escaped = list[i] \in Throwing],
            list, i + 1, event, wildcard)

RECURSIVE invokeAll(_, _, _, _, _)
\* a loop of emit over one array of callbacks, from index i on
invokeAll(st, list, i, event, wildcard) ==
    IF i > Len(list) THEN st
    ELSE invokeAll(invoke(st, list[i], event, wildcard), list, i + 1, event, wildcard)

\* StateManager.emit(event, data): the callbacks of the event, then the wildcard ones
emit(st, event) ==
    invokeAll(
        invokeAll([st EXCEPT !.emitted.delivered = << >>, !.emitted.contained = 0,
                             !.emitted.escaped = FALSE],
                  st.callbacks[event], 1, event, FALSE),
        st.callbacks["*"], 1, event, TRUE)

\* ------------------------------------------------------------- persistence
\* Snapshots a player can have saved, as SaveSystem.save writes them (lastSaveAt set).
\* production and solarCapture are the values recalculateProduction had stored.
SnapshotNames == {"early", "labs", "slots", "swarm", "hub", "station", "victory"}

Counts(f) == [s \in StructureIds |-> IF s \in DOMAIN f THEN f[s] ELSE 0]

Repeat(item, n) == [i \in 1..n |-> item]

\* the technologies completed by a player who can build Dyson hubs
LateResearch ==
    <<"basic_rocketry", "solar_panels", "orbital_mechanics", "material_science",
      "ion_propulsion", "asteroid_mining", "automated_construction", "mercury_operations",
      "solar_collectors_orbital", "dyson_swarm_basics", "self_replication",
      "energy_transmission", "mega_engineering", "dyson_swarm_advanced">>

RawSnapshot(name) ==
    CASE name = "early" ->
            [DefaultState EXCEPT
                !.resources = [energy |-> 12000, materials |-> 26000, research |-> 0],
                !.structures = Counts([launch_pad |-> 4, solar_collector |-> 1]),
                !.completedResearch = <<"basic_rocketry", "solar_panels">>,
                !.researchQueue = <<"orbital_mechanics">>,
                !.researchProgressMap = [t \in {"orbital_mechanics"} |-> 7460],
                !.claimedMilestones = <<"first_launch", "first_solar">>,
                !.stats = [totalResearchCompleted |-> 1, totalStructuresBuilt |-> 5,
                           dysonSatellites |-> 0]]
      [] name = "labs" ->
            [DefaultState EXCEPT
                !.resources = [energy |-> 15000, materials |-> 26000, research |-> 0],
                !.structures = Counts([launch_pad |-> 1, solar_collector |-> 2]),
                !.constructionQueue = Repeat(queueItem("solar_collector"), 10),
                !.completedResearch = <<"basic_rocketry", "solar_panels", "orbital_mechanics",
                                        "material_science", "parallel_research">>,
                !.researchQueue = <<"life_support", "ion_propulsion">>,
                !.researchProgressMap = [t \in {"life_support", "ion_propulsion"} |->
                                            IF t = "life_support" THEN 14980 ELSE 29950],
                !.maxResearchSlots = 2,
                !.claimedMilestones = <<"first_launch", "first_solar", "research_5">>,
                !.stats = [totalResearchCompleted |-> 4, totalStructuresBuilt |-> 3,
                           dysonSatellites |-> 0]]
      [] name = "slots" ->
            [DefaultState EXCEPT
                !.resources = [energy |-> 1000, materials |-> 0, research |-> 0],
                !.completedResearch = <<"basic_rocketry", "orbital_mechanics",
                                        "material_science">>,
                !.researchQueue = <<"parallel_research">>,
                !.researchProgressMap = [t \in {"parallel_research"} |-> 44990],
                !.autoResearch = TRUE,
                !.stats = [totalResearchCompleted |-> 2, totalStructuresBuilt |-> 0,
                           dysonSatellites |-> 0]]
      [] name = "swarm" ->
            [DefaultState EXCEPT
                !.resources = [energy |-> 15000, materials |-> 100000, research |-> 0],
                !.structures = Counts([launch_pad |-> 1, dyson_satellite |-> 9,
                                       replicator_hub |-> 10]),
                !.constructionQueue = Repeat(queueItem("dyson_satellite"), 3),
                !.completedResearch = <<"basic_rocketry", "solar_panels", "orbital_mechanics",
                                        "material_science", "ion_propulsion", "asteroid_mining",
                                        "automated_construction", "mercury_operations",
                                        "solar_collectors_orbital", "dyson_swarm_basics",
                                        "self_replication">>,
                !.claimedMilestones = <<"first_launch", "capture_0001", "structures_10",
                                        "research_5", "research_10">>,
                !.stats = [totalResearchCompleted |-> 10, totalStructuresBuilt |-> 20,
                           dysonSatellites |-> 9]]
      [] name = "hub" ->
            [DefaultState EXCEPT
                !.resources = [energy |-> 15000, materials |-> 100000, research |-> 0],
                !.structures = Counts([launch_pad |-> 1, dyson_satellite |-> 4]),
                !.constructionQueue = <<[queueItem("dyson_hub") EXCEPT !.progress = 299990]>>,
                !.completedResearch = LateResearch,
                !.researchQueue = <<"distributed_intelligence">>,
                !.researchProgressMap = [t \in {"distributed_intelligence"} |-> 349995],
                !.claimedMilestones = <<"first_launch", "capture_0001", "research_5",
                                        "research_10">>,
                !.stats = [totalResearchCompleted |-> 13, totalStructuresBuilt |-> 5,
                           dysonSatellites |-> 4]]
      [] name = "station" ->
            [DefaultState EXCEPT
                !.resources = [energy |-> 15000, materials |-> 26000, research |-> 0],
                !.structures = Counts([launch_pad |-> 1, space_station |-> 1]),
                !.constructionQueue = <<[queueItem("space_station") EXCEPT !.progress = 29900]>>,
                !.completedResearch = <<"basic_rocketry", "orbital_mechanics">>,
                !.researchQueue = <<"material_science">>,
                !.researchProgressMap = [t \in {"material_science"} |-> 9970],
                !.claimedMilestones = <<"first_launch", "first_station">>,
                !.stats = [totalResearchCompleted |-> 1, totalStructuresBuilt |-> 2,
                           dysonSatellites |-> 0]]
      [] name = "victory" ->
            [DefaultState EXCEPT
                !.resources = [energy |-> 15000, materials |-> 100000, research |-> 0],
                !.structures = Counts([launch_pad |-> 1, dyson_satellite |-> 10,
                                       dyson_hub |-> 6]),
                !.constructionQueue = <<[queueItem("dyson_hub") EXCEPT !.progress = 299990]>>,
                !.completedResearch = LateResearch,
                !.currentEra = 4,
                !.claimedMilestones = <<"first_launch", "capture_0001", "capture_001",
                                        "capture_01", "capture_05", "capture_10", "capture_25",
                                        "capture_50", "capture_75", "structures_10",
                                        "research_5", "research_10", "era_2", "era_3",
                                        "era_4">>,
                !.stats = [totalResearchCompleted |-> 13, totalStructuresBuilt |-> 17,
                           dysonSatellites |-> 10]]

\* the snapshot as SaveSystem.save serialises it
serialized(raw, calc) ==
    [raw EXCEPT !.production = calc.production, !.solarCapture = calc.solarCapture,
                !.lastSaveAt = "set"]

withRates(raw) == serialized(raw, recalculateProduction(raw))

Snapshot(name) == withRates(RawSnapshot(name))

\* StateManager.loadState: the snapshot's persisted fields over the default state
loadState(st, snap) ==
    [st EXCEPT !.resources = snap.resources, !.production = snap.production,
               !.structures = snap.structures, !.constructionQueue = snap.constructionQueue,
               !.completedResearch = snap.completedResearch,
               !.researchQueue = snap.researchQueue,
               !.researchProgressMap = snap.researchProgressMap,
               !.maxResearchSlots = snap.maxResearchSlots, !.autoResearch = snap.autoResearch,
               !.currentEra = snap.currentEra, !.solarCapture = snap.solarCapture,
               !.claimedMilestones = snap.claimedMilestones, !.flags = snap.flags,
               !.stats = snap.stats, !.lastSaveAt = snap.lastSaveAt]

\* ------------------------------------------------------------------- boot
\* SaveSystem.init: load the snapshot if there is one
saveSystemInit(st, name) == IF name = "none" THEN st ELSE loadState(st, Snapshot(name))

\* TimeManager.init
timeManagerInit(st, elapsed) ==
    IF st.lastSaveAt # "null" THEN timeManagerOffline(st, elapsed) ELSE st

\* ResourceSystem.init
resourceSystemInit(st) ==
    [recalculateProduction(st) EXCEPT !.subscribers = @ \cup {"ResourceSystem"}]

\* ProgressionSystem.init
progressionSystemInit(st) ==
    IF Len(st.researchQueue) > 0
    THEN checkMilestones([st EXCEPT !.psResearchQueue = st.researchQueue,
                                    !.psResearchProgressMap = st.researchProgressMap,
                                    !.subscribers = @ \cup {"ProgressionSystem"}])
    ELSE checkMilestones([st EXCEPT !.subscribers = @ \cup {"ProgressionSystem"}])

\* IdleAccumulator.init
idleAccumulatorInit(st, elapsed) == idleOffline(st, elapsed)

\* Offline gaps a session starts with, in ms: a brief reload, exactly a minute,
\* two hours, and more than the 24 hour cap.
InitCases ==
    {<<"none", 0>>, <<"early", 30000>>, <<"early", 60000>>, <<"early", 7200000>>,
     <<"early", 90000000>>, <<"labs", 30000>>, <<"slots", 30000>>, <<"swarm", 30000>>,
     <<"swarm", 120000>>}

\* ------------------------------------------------------------------ inputs
\* deltaTime handed to Game.update, in ms: update(deltaTime) advances every system by
\* the delta it is given, and a tick of the model advances the game by 2 s or by 5 s
DeltaTimes == {2000, 5000}

StructureInputs == {"launch_pad", "solar_collector", "dyson_satellite", "replicator_hub",
                    "warp_gate"}

BulkInputs == {"solar_collector", "launch_pad"}

TechInputs == {"solar_panels", "orbital_mechanics", "material_science", "life_support",
               "warp_drive"}

\* indices handed to cancel: before the array, the head, the second item, past the end
CancelIndices == {-1, 0, 1, 12}

\* no queue item reported
NoItem == [structureId |-> "", buildTime |-> 0, progress |-> 0]

\* the last operation: its name, its arguments (id, n), the value it returned and the
\* queue item its event carried (construction:start, construction:cancel)
NoResult == [op |-> "none", id |-> "", n |-> 0, value |-> << >>, item |-> NoItem]

\* ----------------------------------------------------------------- actions
\* Game.init after initCoreSystems: every system constructed, nothing loaded yet
Init ==
    /\ game = DefaultState
    /\ \E c \in InitCases : saved = c[1] /\ elapsedMs = c[2]
    /\ pc = "loadSavedState"
    /\ ticks = 0
    /\ commands = 0
    /\ result = NoResult

\* Game.loadSavedState
LoadSavedState ==
    /\ pc = "loadSavedState"
    /\ game' = timeManagerInit(saveSystemInit(game, saved), elapsedMs)
    /\ pc' = "initGameSystems"
    /\ result' = [NoResult EXCEPT !.op = "loadSavedState"]
    /\ UNCHANGED <<saved, elapsedMs, ticks, commands>>

\* Game.initGameSystems
InitGameSystems ==
    /\ pc = "initGameSystems"
    /\ game' = idleAccumulatorInit(progressionSystemInit(resourceSystemInit(game)), elapsedMs)
    /\ pc' = "running"
    /\ result' = [NoResult EXCEPT !.op = "initGameSystems"]
    /\ UNCHANGED <<saved, elapsedMs, ticks, commands>>

\* Game.update(deltaTime), called by the game loop
Tick(deltaTime) ==
    /\ pc = "running"
    /\ ticks < MaxTicks
    /\ game' = gameUpdate(game, deltaTime)
    /\ ticks' = ticks + 1
    /\ result' = [NoResult EXCEPT !.op = "update", !.n = deltaTime]
    /\ UNCHANGED <<saved, elapsedMs, pc, commands>>

\* a command of the player arrives from the UI while the game runs
Accepting == pc = "running" /\ commands < MaxCommands

Counted == commands' = commands + 1 /\ UNCHANGED <<saved, elapsedMs, pc, ticks>>

\* ConstructionSystem.build(structureId)
Build(structureId) ==
    /\ Accepting
    /\ game' = build(game, structureId)
    /\ result' = [op |-> "build", id |-> structureId, n |-> 0,
                  value |-> <<buildReason(game, structureId)>>,
                  item |-> IF buildReason(game, structureId) = "success"
                           THEN queueItem(structureId) ELSE NoItem]
    /\ Counted

\* ConstructionSystem.bulkBuild(structureId, count)
BulkBuild(structureId, count) ==
    /\ Accepting
    /\ game' = bulkBuild(game, structureId, count).st
    /\ result' = [op |-> "bulkBuild", id |-> structureId, n |-> count,
                  value |-> bulkBuild(game, structureId, count).results, item |-> NoItem]
    /\ Counted

\* ConstructionSystem.cancel(index)
Cancel(index) ==
    /\ Accepting
    /\ game' = cancel(game, index)
    /\ result' = [op |-> "cancel", id |-> "", n |-> index,
                  value |-> <<IF cancelOk(game, index) THEN "true" ELSE "false">>,
                  item |-> IF cancelOk(game, index)
                           THEN game.constructionQueue[index + 1] ELSE NoItem]
    /\ Counted

\* ProgressionSystem.startResearch(techId)
StartResearch(techId) ==
    /\ Accepting
    /\ game' = startResearch(game, techId)
    /\ result' = [op |-> "startResearch", id |-> techId, n |-> 0,
                  value |-> <<IF startResearchOk(game, techId) THEN "true" ELSE "false">>,
                  item |-> NoItem]
    /\ Counted

\* ProgressionSystem.cancelResearch(techId)
CancelResearch(techId) ==
    /\ Accepting
    /\ game' = cancelResearch(game, techId)
    /\ result' = [op |-> "cancelResearch", id |-> techId, n |-> 0,
                  value |-> <<IF Contains(game.psResearchQueue, techId)
                              THEN "true" ELSE "false">>,
                  item |-> NoItem]
    /\ Counted

\* ProgressionSystem.setAutoResearch(enabled)
SetAutoResearch(enabled) ==
    /\ Accepting
    /\ game' = setAutoResearch(game, enabled)
    /\ result' = [op |-> "setAutoResearch", id |-> IF enabled THEN "true" ELSE "false",
                  n |-> 0, value |-> << >>, item |-> NoItem]
    /\ Counted

Next ==
    \/ LoadSavedState
    \/ InitGameSystems
    \/ \E deltaTime \in DeltaTimes : Tick(deltaTime)
    \/ \E structureId \in StructureInputs : Build(structureId)
    \/ \E structureId \in BulkInputs, count \in 1..MaxBulk : BulkBuild(structureId, count)
    \/ \E index \in CancelIndices : Cancel(index)
    \/ \E techId \in TechInputs : StartResearch(techId)
    \/ \E techId \in TechInputs : CancelResearch(techId)
    \/ \E enabled \in BOOLEAN : SetAutoResearch(enabled)

Spec == Init /\ [][Next]_vars

\* ---------------------------------------------------------------- late game
\* Sessions of a player close to the end of the game, loaded after a brief reload
LateCases == {<<"hub", 30000>>, <<"station", 30000>>, <<"victory", 30000>>}

\* deltaTime of one frame of the game loop, in ms: 1000/60 at time scale 1 and at the
\* largest time scale, 10
FrameTimes == {17, 167}

InitLate ==
    /\ game = DefaultState
    /\ \E c \in LateCases : saved = c[1] /\ elapsedMs = c[2]
    /\ pc = "loadSavedState"
    /\ ticks = 0
    /\ commands = 0
    /\ result = NoResult

NextLate ==
    \/ LoadSavedState
    \/ InitGameSystems
    \/ \E deltaTime \in FrameTimes : Tick(deltaTime)
    \/ \E structureId \in StructureInputs : Build(structureId)
    \/ \E structureId \in BulkInputs, count \in 1..MaxBulk : BulkBuild(structureId, count)
    \/ \E index \in CancelIndices : Cancel(index)
    \/ \E techId \in TechInputs : StartResearch(techId)
    \/ \E techId \in TechInputs : CancelResearch(techId)
    \/ \E enabled \in BOOLEAN : SetAutoResearch(enabled)

SpecLate == InitLate /\ [][NextLate]_vars


\* ------------------------------------------------ the API called directly
\* ProgressionSystem.completeResearch(techId), called on the exported singleton
ApiTechInputs == {"solar_panels", "parallel_research", "warp_drive"}

CompleteResearch(techId) ==
    /\ Accepting
    /\ game' = completeResearch(game, techId)
    /\ result' = [op |-> "completeResearch", id |-> techId, n |-> 0, value |-> << >>,
                  item |-> NoItem]
    /\ Counted

NextApi ==
    \/ Next
    \/ \E techId \in ApiTechInputs : CompleteResearch(techId)

SpecApi == Init /\ [][NextApi]_vars

\* ------------------------------------------------ the ledger on its own
\* ledger quantities a session can hold, in whole units
LedgerAmounts == {0, 20, 50, 100, 200}

\* the cost bundles of the catalog handed to spend, named by their structure
BundleInputs == {"launch_pad", "solar_collector", "space_station"}

InitLedger ==
    /\ \E e \in LedgerAmounts, m \in LedgerAmounts :
          game = [DefaultState EXCEPT
                    !.resources = [energy |-> e * RScale, materials |-> m * RScale,
                                   research |-> 0]]
    /\ saved = "none"
    /\ elapsedMs = 0
    /\ pc = "running"
    /\ ticks = 0
    /\ commands = 0
    /\ result = NoResult

\* ResourceSystem.spend(STRUCTURES[structureId].cost)
Spend(structureId) ==
    /\ Accepting
    /\ game' = spend(game, STRUCTURES[structureId].cost).st
    /\ result' = [op |-> "spend", id |-> structureId, n |-> 0,
                  value |-> <<IF spend(game, STRUCTURES[structureId].cost).ok
                              THEN "true" ELSE "false">>,
                  item |-> NoItem]
    /\ Counted

\* ResourceSystem.add(type, amount)
Add(type, amount) ==
    /\ Accepting
    /\ game' = addResource(game, type, amount * RScale)
    /\ result' = [op |-> "add", id |-> type, n |-> amount, value |-> << >>, item |-> NoItem]
    /\ Counted

NextLedger ==
    \/ \E structureId \in BundleInputs : Spend(structureId)
    \/ \E type \in {"energy", "materials"}, amount \in {30, 50} : Add(type, amount)

SpecLedger == InitLedger /\ [][NextLedger]_vars

\* ------------------------------------------------------------ properties
\* the amount a cost bundle lists for a kind, in 1/RScale; 0 if it lists none
Amount(costs, kind) ==
    IF \E i \in 1..Len(costs) : costs[i].type = kind
    THEN RScale * costs[CHOOSE i \in 1..Len(costs) : costs[i].type = kind].amount
    ELSE 0

\* ledger `after` is ledger `before` less the whole bundle
Deducted(before, after, costs) ==
    \A k \in ResourceKinds : after[k] = before[k] - Amount(costs, k)

\* the state SaveSystem.init leaves: the snapshot over the defaults, or the defaults
Loaded == saveSystemInit(DefaultState, saved)

\* what TimeManager.calculateOfflineProgress adds for one kind over the session's gap
OfflineGain(k) ==
    gain(Loaded.production[k], Mul(Min(elapsedMs, MaxOfflineMs), OFFLINE_EFFICIENCY))

\* C1: spend(costBundle) is all-or-nothing: a step of spend either reduces every
\* listed kind by its amount or changes no kind at all.
C1_SpendAllOrNothing ==
    [][result'.op = "spend" =>
          \/ Deducted(game.resources, game'.resources, STRUCTURES[result'.id].cost)
          \/ game'.resources = game.resources]_vars

\* C2: offline reconciliation is applied at most once per session: no session emits
\* offline:progress twice, a session started from a snapshot saved at least 60 s ago
\* has emitted it exactly once when the game loop starts, and its ledger then holds
\* the snapshot's quantities plus the offline gain, once.
C2_OfflineOnce ==
    /\ game.emitted.offline_progress <= 1
    /\ (pc = "running" /\ saved # "none" /\ elapsedMs >= MinOfflineMs) =>
          /\ game.emitted.offline_progress = 1
          /\ (ticks = 0 /\ commands = 0) =>
                \A k \in ResourceKinds :
                    game.resources[k] <= Loaded.resources[k] + OfflineGain(k)

\* C3: in every reachable state energy, materials and research are each at least 0.
C3_LedgerNonNegative == \A k \in ResourceKinds : game.resources[k] >= 0

\* a build has just spent so much that the same structure cannot be paid for again
C3_Witness ==
    /\ result.op = "build"
    /\ result.value = <<"success">>
    /\ ~canAfford(game, STRUCTURES[result.id].cost)

\* C4: a build request rejected for any reason leaves the resource ledger, the
\* construction queue and every structure count exactly as they were.
C4_RejectedBuildChangesNothing ==
    [][(result'.op = "build" /\ result'.value # <<"success">>) =>
          /\ game'.resources = game.resources
          /\ game'.constructionQueue = game.constructionQueue
          /\ game'.structures = game.structures]_vars

\* scenario A: energy 100, materials 50, a launch pad (50 energy, 100 materials)
\* was refused with cannot_afford and the ledger still holds 100 and 50
C4_Witness ==
    /\ result.op = "build"
    /\ result.id = "launch_pad"
    /\ result.value = <<"cannot_afford">>
    /\ game.resources.energy = 100 * RScale
    /\ game.resources.materials = 50 * RScale

\* a cancel refunds to `after` this share (1/MScale) of each amount of the bundle
Refunded(before, after, costs, share) ==
    \A k \in ResourceKinds :
        after[k] = before[k] + RScale * (((Amount(costs, k) \div RScale) * share) \div MScale)

\* C5: a successful build deducts the full cost and appends an item with progress 0,
\* and cancelling that item at once restores ledger and queue exactly; a cancel of an
\* item with progress 0 refunds the whole cost, a cancel of an item with progress
\* above 0 refunds floor(amount * 0.5) of each resource of the cost.
C5_BuildAndCancel ==
    [][/\ (result'.op = "build" /\ result'.value = <<"success">>) =>
            /\ Deducted(game.resources, game'.resources, STRUCTURES[result'.id].cost)
            /\ Len(game'.constructionQueue) = Len(game.constructionQueue) + 1
            /\ SubSeq(game'.constructionQueue, 1, Len(game.constructionQueue))
                    = game.constructionQueue
            /\ game'.constructionQueue[Len(game'.constructionQueue)].structureId = result'.id
            /\ game'.constructionQueue[Len(game'.constructionQueue)].progress = 0
            /\ cancel(game', Len(game.constructionQueue)).resources = game.resources
            /\ cancel(game', Len(game.constructionQueue)).constructionQueue
                    = game.constructionQueue
       /\ (result'.op = "cancel" /\ result'.value = <<"true">>) =>
            /\ Refunded(game.resources, game'.resources,
                        STRUCTURES[result'.item.structureId].cost,
                        IF result'.item.progress > 0 THEN 500 ELSE 1000)
            /\ game'.constructionQueue = RemoveAt(game.constructionQueue, result'.n + 1)
      ]_vars

\* an item that had accrued progress has just been cancelled
C5_Witness ==
    /\ result.op = "cancel"
    /\ result.value = <<"true">>
    /\ result.item.progress > 0

\* occurrences of a structure type in the construction queue
Queued(s) ==
    Cardinality({i \in 1..Len(game.constructionQueue) :
                    game.constructionQueue[i].structureId = s})

\* C6: for every structure type with a finite limit, the number built plus the number
\* in the construction queue is at most the limit.
C6_LimitRespected ==
    \A s \in StructureIds :
        STRUCTURES[s].hasLimit => game.structures[s] + Queued(s) <= STRUCTURES[s].limit

\* a build was refused with limit_reached while items of the type wait in the queue
C6_Witness ==
    /\ result.op = "build"
    /\ result.value = <<"limit_reached">>
    /\ Queued(result.id) > 0
    /\ game.structures[result.id] + Queued(result.id) = STRUCTURES[result.id].limit

\* launchCapacity as the current structure counts give it
LaunchCapacity ==
    SumSet(StructureIds,
           [s \in StructureIds |-> STRUCTURES[s].production.launchCapacity * game.structures[s]])

\* C7: the construction queue is never longer than 10 + launchCapacity, with
\* launchCapacity derived from the current structure counts.
C7_QueueBounded == Len(game.constructionQueue) <= 10 + LaunchCapacity

\* a build was refused with queue_full, the queue being exactly at its capacity
C7_Witness ==
    /\ result.op = "build"
    /\ result.value = <<"queue_full">>
    /\ Len(game.constructionQueue) = 10 + LaunchCapacity

\* the head of the queue was taken away by this step: completed by a tick, or cancelled
HeadRemoved ==
    \/ result'.op = "update" /\ Len(game'.constructionQueue) < Len(game.constructionQueue)
    \/ result'.op = "cancel" /\ result'.value = <<"true">> /\ result'.n = 0

\* C8: only the head of the construction queue accrues progress: every item behind
\* the head has progress 0, and an item that becomes head after a completion or a
\* cancel starts from progress 0.
C8_OnlyHeadProgresses ==
    [][/\ \A i \in 2..Len(game'.constructionQueue) : game'.constructionQueue[i].progress = 0
       /\ (HeadRemoved /\ Len(game'.constructionQueue) > 0) =>
             game'.constructionQueue[1].progress = 0]_vars

\* a tick completed the head with build time to spare and another item is now head
C8_Witness ==
    /\ result.op = "update"
    /\ saved = "labs"
    /\ game.structures["solar_collector"] > Loaded.structures["solar_collector"]
    /\ (result.n * game.buildSpeed) \div MScale > 5 * MsPerSecond
    /\ Len(game.constructionQueue) > 0

\* C9: completeResearch(techId) on a technology already in the completed set changes
\* neither the completed set, nor the completed-research counter, nor maxResearchSlots.
C9_CompleteResearchOnce ==
    [][(result'.op = "completeResearch" /\ Contains(game.completedResearch, result'.id)) =>
          /\ game'.completedResearch = game.completedResearch
          /\ game'.stats.totalResearchCompleted = game.stats.totalResearchCompleted
          /\ game'.maxResearchSlots = game.maxResearchSlots]_vars

NoDuplicates(s) == \A i, j \in 1..Len(s) : s[i] = s[j] => i = j

\* C10: no technology is both completed and in the in-progress research queue, and
\* neither collection holds a technology twice.
C10_CompletedXorInProgress ==
    /\ Range(game.completedResearch) \cap Range(game.psResearchQueue) = {}
    /\ Range(game.completedResearch) \cap Range(game.researchQueue) = {}
    /\ NoDuplicates(game.completedResearch)
    /\ NoDuplicates(game.psResearchQueue)
    /\ NoDuplicates(game.researchQueue)

\* a tick completed a technology and auto-research put the next one in progress
C10_Witness ==
    /\ result.op = "update"
    /\ game.autoResearch
    /\ Len(game.completedResearch) > Len(Loaded.completedResearch)
    /\ Len(game.psResearchQueue) > 0

\* C11: the number of technologies in progress is at most maxResearchSlots in every
\* reachable state, whether they were started by startResearch or by auto-research.
C11_SlotsRespected ==
    /\ Len(game.psResearchQueue) <= game.maxResearchSlots
    /\ Len(game.researchQueue) <= game.maxResearchSlots

\* a tick ended with auto-research having filled the last of several slots
C11_Witness ==
    /\ result.op = "update"
    /\ game.autoResearch
    /\ game.maxResearchSlots >= 2
    /\ Len(game.psResearchQueue) = game.maxResearchSlots
    /\ \E t \in Range(game.psResearchQueue) : game.psResearchProgressMap[t] = 0

\* research slots the completed technologies grant
GrantedSlots ==
    SumSet(Range(game.completedResearch),
           [t \in Range(game.completedResearch) |-> TECH_TREE[t].effects.researchSlots])

\* C12: maxResearchSlots is 1 plus the sum of researchSlots over the completed
\* technologies in every state reached through startResearch, cancelResearch and
\* ticks: it rises by exactly N when a technology granting N completes, and a
\* technology still in progress has raised nothing.
C12_SlotsFromCompleted ==
    /\ game.maxResearchSlots = 1 + GrantedSlots
    /\ \A t \in Range(game.psResearchQueue) : ~Contains(game.completedResearch, t)

\* a tick has just completed a technology that grants a research slot
C12_Witness ==
    /\ result.op = "update"
    /\ game.maxResearchSlots = Loaded.maxResearchSlots + 1
    /\ \E t \in Range(game.completedResearch) :
          /\ ~Contains(Loaded.completedResearch, t)
          /\ TECH_TREE[t].effects.researchSlots = 1

\* the total research rate when the research step of a tick of deltaTime runs: the
\* rate in state.production after the ledger and the construction steps of that tick
RateAtResearch(deltaTime) ==
    constructionUpdate(resourceUpdate(game, deltaTime), deltaTime).production.research

\* the share of one technology in a tick of deltaTime: R * deltaTime / k, with k the
\* number of technologies in progress when the tick starts
ResearchShare(deltaTime) ==
    (RateAtResearch(deltaTime) * deltaTime) \div (Len(game.psResearchQueue) * MsPerSecond)

\* C13: on a tick with k >= 1 technologies in progress and research rate R > 0 every
\* technology in progress gains exactly R * deltaTime / k: one that stays in progress
\* holds its old progress plus that share, below its cost, and one that leaves the
\* queue has completed because its progress plus that share reached its cost.
C13_EvenShare ==
    [][(/\ result'.op = "update"
        /\ Len(game.psResearchQueue) > 0
        /\ RateAtResearch(result'.n) > 0) =>
          \A t \in Range(game.psResearchQueue) :
              IF Contains(game'.psResearchQueue, t)
              THEN /\ game'.psResearchProgressMap[t]
                        = game.psResearchProgressMap[t] + ResearchShare(result'.n)
                   /\ game'.psResearchProgressMap[t] < TECH_TREE[t].cost * RScale
              ELSE /\ Contains(game'.completedResearch, t)
                   /\ game.psResearchProgressMap[t] + ResearchShare(result'.n)
                        >= TECH_TREE[t].cost * RScale]_vars

\* two technologies shared a tick: one completed, the other stays in progress alone
\* with its half of the rate added
C13_Witness ==
    /\ result.op = "update"
    /\ saved = "labs"
    /\ ticks = 1
    /\ Contains(game.completedResearch, "life_support")
    /\ game.psResearchQueue = <<"ion_propulsion">>
    /\ game.psResearchProgressMap["ion_propulsion"]
          = Loaded.researchProgressMap["ion_propulsion"]
            + (game.production.research * result.n) \div (2 * MsPerSecond)

\* C14: at every tick boundary no unclaimed milestone has its condition satisfied in
\* the current state; in particular the era milestone of era N is claimed in the
\* tick in which currentEra advances to N.
C14_ClaimedByEndOfTick ==
    result.op = "update" => getNewlyAchievedMilestones(game) = << >>

\* the milestones claimed in the saved game the session was loaded from
ClaimedBefore ==
    IF saved = "none" THEN {} ELSE Range(RawSnapshot(saved).claimedMilestones)

\* C15: each milestone is claimed at most once and rewarded at most once: the claimed
\* list and the list of rewards granted in the session hold no milestone twice, no
\* milestone claimed in the loaded snapshot is rewarded in the session, every reward
\* belongs to a claimed milestone, and once a milestone was claimed in the session,
\* after an evaluation of the milestones a second evaluation of the same state finds
\* no milestone to claim, so it changes nothing.
C15_ClaimedOnce ==
    /\ NoDuplicates(game.claimedMilestones)
    /\ NoDuplicates(game.emitted.rewarded)
    /\ Range(game.emitted.rewarded) \subseteq Range(game.claimedMilestones)
    /\ Range(game.emitted.rewarded) \cap ClaimedBefore = {}
    /\ game.emitted.rewarded # << >> =>
          getNewlyAchievedMilestones(checkMilestones(game)) = << >>

\* a milestone claimed and rewarded in the first tick was evaluated again, still
\* satisfied, when the second tick completed another satellite
C15_Witness ==
    /\ result.op = "update"
    /\ saved = "swarm"
    /\ ticks = 2
    /\ Contains(game.emitted.rewarded, "capture_001")
    /\ checkMilestoneCondition("capture_001", game)
    /\ game.structures["dyson_satellite"] >= Loaded.structures["dyson_satellite"] + 2

\* the victory milestone is in the claimed set
VictoryClaimed(st) ==
    \E id \in Range(st.claimedMilestones) : MILESTONES[id].isVictory

\* C16: game:victory is emitted at most once in a session, flags.victoryAchieved is
\* true exactly when the victory milestone is in the claimed set, and no tick and no
\* command clears the flag once it is set.
C16_VictoryOnce ==
    [][/\ game.emitted.game_victory <= 1 /\ game'.emitted.game_victory <= 1
       /\ game.flags.victoryAchieved <=> VictoryClaimed(game)
       /\ game'.flags.victoryAchieved <=> VictoryClaimed(game')
       /\ game.flags.victoryAchieved => game'.flags.victoryAchieved]_vars

\* the tick after the one that claimed the victory milestone: the flag is set and the
\* event was emitted once
C16_Witness ==
    /\ result.op = "update"
    /\ ticks = 2
    /\ game.flags.victoryAchieved
    /\ game.emitted.game_victory = 1
    /\ Contains(game.emitted.rewarded, "capture_100")
    /\ game.solarCapture = SCScale

\* the auto-construction rate when the auto-construction step of a tick of deltaTime
\* runs: the rate in logistics after the ledger step and the head's progress
RateAtAutoConstruction(deltaTime) ==
    progressHead(resourceUpdate(game, deltaTime), deltaTime).logistics.autoConstruction

\* C17: on every tick, whether the construction queue is empty or not, the
\* auto-construction counter grows by autoConstructionRate / 60 * deltaTime; each
\* item completed by auto-construction then takes one unit off.
C17_CounterGrowsEveryTick ==
    [][result'.op = "update" =>
          \E n \in 0..Len(game.constructionQueue) :
              game'.autoBuildProgress
                = game.autoBuildProgress
                  + RateAtAutoConstruction(result'.n) * result'.n - n * AutoBuildUnit]_vars

\* the technologies auto-research could start: prerequisites completed, not
\* completed, not in progress
Startable ==
    {t \in Range(getAvailableTechs(game.completedResearch)) :
        ~Contains(game.psResearchQueue, t)}

\* C18: with auto-research enabled, at the end of every tick either the in-progress
\* set is full or no technology is left that could be started.
C18_SlotsRefilled ==
    (result.op = "update" /\ game.autoResearch) =>
        \/ Len(game.psResearchQueue) = game.maxResearchSlots
        \/ Startable = {}

\* solar capture values an era evaluation is tried on, in 1/SCScale: none, just below
\* and at each era threshold, and all of the star
CaptureValues == {0, 9, 10, 99, 100, 999, 1000, 10000}

\* C19: currentEra stays within 1..4 and no tick and no command decreases it; an era
\* evaluation of the state reached, tried with any solar capture, a lower one
\* included, leaves the era where it is or raises it.
C19_EraNeverDecreases ==
    [][/\ game.currentEra \in 1..4
       /\ game'.currentEra \in game.currentEra..4
       /\ \A c \in CaptureValues :
             checkEraProgression([game' EXCEPT !.solarCapture = c]).currentEra
                \in game'.currentEra..4]_vars

\* a tick has advanced the era, and an era evaluation with solar capture back at 0
\* keeps the era reached
C19_Witness ==
    /\ result.op = "update"
    /\ game.currentEra > Loaded.currentEra
    /\ game.solarCapture > 0
    /\ checkEraProgression([game EXCEPT !.solarCapture = 0]).currentEra = game.currentEra

\* the highest era whose threshold the solar capture has reached
HighestEra(capture) ==
    CHOOSE e \in 1..4 :
        capture >= ERAS[e] /\ \A higher \in (e + 1)..4 : capture < ERAS[higher]

\* the era:change events a step has emitted
EraChanges(before, after) ==
    SubSeq(after.emitted.era_change, Len(before.emitted.era_change) + 1,
           Len(after.emitted.era_change))

\* C20: after a tick currentEra is the larger of its previous value and the highest
\* era whose threshold is at most the solar capture, also when the tick crosses
\* several thresholds; the era:change events of the tick are in strictly ascending
\* era order, above the previous era and ending at the new one.
C20_HighestQualifyingEra ==
    [][result'.op = "update" =>
          /\ game'.currentEra = Max(game.currentEra, HighestEra(game'.solarCapture))
          /\ \A i \in 1..Len(EraChanges(game, game')) :
                /\ EraChanges(game, game')[i] > game.currentEra
                /\ i > 1 => EraChanges(game, game')[i] > EraChanges(game, game')[i - 1]
          /\ game'.currentEra > game.currentEra =>
                /\ EraChanges(game, game') # << >>
                /\ EraChanges(game, game')[Len(EraChanges(game, game'))] = game'.currentEra]_vars

\* one tick crossed the thresholds of era 2 and of era 3: the era went from 1 to 3
\* and era:change was emitted for 2, then for 3
C20_Witness ==
    /\ result.op = "update"
    /\ Loaded.currentEra = 1
    /\ game.currentEra = 3
    /\ game.emitted.era_change = <<2, 3>>
    /\ game.solarCapture >= ERAS[3]
    /\ game.solarCapture < ERAS[4]

\* the solar capture recalculateProduction computes from the structures and the
\* completed technologies of the current state, before setSolarCapture clamps it
RawCapture ==
    Mul(structureTotals(game).solarCapture,
        dysonModifier(structureTotals(game), getTechModifiers(game.completedResearch)))

\* C21: no build, cancel, tick or research operation lowers the stored solar
\* capture, and the stored value always lies in [0, 1]; loading a saved game is the
\* one step left out.
C21_CaptureNeverDrops ==
    [][result'.op # "loadSavedState" =>
          /\ game'.solarCapture >= game.solarCapture
          /\ game'.solarCapture \in 0..SCScale]_vars

\* a tick has raised the solar capture to 1, where the recompute gives more than 1
C21_Witness ==
    /\ result.op = "update"
    /\ game.solarCapture = SCScale
    /\ RawCapture > SCScale
    /\ Loaded.solarCapture < SCScale

\* the rates, the build-speed modifier, the logistics values and the solar capture
\* stored in st are those a full recompute from st's structures and completed
\* technologies stores
Recomputed(st, full) ==
    /\ st.production = full.production
    /\ st.buildSpeed = full.buildSpeed
    /\ st.logistics = full.logistics
    /\ st.solarCapture = full.solarCapture

\* C22: while the game runs, after every completed construction and every completed
\* research and so at every tick boundary, the stored production rates, build-speed
\* modifier, logistics values and solar capture equal a full recompute from the
\* current structure counts and completed technologies.
C22_NoStaleRates ==
    pc = "running" => Recomputed(game, recalculateProduction(game))

\* one tick completed a Dyson hub and a technology that raises research efficiency:
\* the energy rate, the research rate and the solar capture all changed
C22_Witness ==
    /\ result.op = "update"
    /\ game.structures["dyson_hub"] > Loaded.structures["dyson_hub"]
    /\ Len(game.completedResearch) > Len(Loaded.completedResearch)
    /\ game.production.energy > Loaded.production.energy
    /\ game.production.research > Loaded.production.research
    /\ game.solarCapture > Loaded.solarCapture

\* what a reward bundle pays into one resource
RewardOf(reward, type) ==
    LET OfType(e) == e.type = type
    IN  IF SelectSeq(reward, OfType) = << >> THEN 0
        ELSE SelectSeq(reward, OfType)[1].amount * RScale

RECURSIVE RewardTotal(_, _, _)
\* what the milestones ids[i..] pay into one resource
RewardTotal(ids, i, type) ==
    IF i > Len(ids) THEN 0
    ELSE RewardOf(MILESTONES[ids[i]].reward, type) + RewardTotal(ids, i + 1, type)

\* the milestones rewarded by the step from the current state to the next
RewardedByStep ==
    SubSeq(game'.emitted.rewarded, Len(game.emitted.rewarded) + 1,
           Len(game'.emitted.rewarded))

\* the research rate recomputed from the structures that stand after the step and the
\* technologies completed before it
RateAfterConstruction ==
    Mul(BASE_PRODUCTION.research + RScale * contribution(game', "research", StructureIds),
        researchModifier([population |-> contribution(game', "population", StructureIds),
                          computation |-> contribution(game', "computation", StructureIds)],
                         [research |-> techModifier(game.completedResearch, "research")]))

\* C23: within a tick the ledger step, the construction step and the research step
\* run in that order, each on the result of the one before: the ledger of every
\* resource grows by the rate stored before the tick times the tick (plus the rewards
\* of the milestones claimed in the tick), whatever the tick completes, and every
\* technology in progress advances by its share of the research rate of the
\* structures that stand after the construction step of the same tick.
C23_StepOrder ==
    [][result'.op = "update" =>
          /\ \A type \in {"energy", "materials", "research"} :
                game'.resources[type]
                  = game.resources[type]
                    + (IF game.production[type] > 0
                       THEN gain(game.production[type], result'.n) ELSE 0)
                    + RewardTotal(RewardedByStep, 1, type)
          /\ \A t \in Range(game.psResearchQueue) :
                IF Contains(game'.psResearchQueue, t)
                THEN game'.psResearchProgressMap[t]
                        = game.psResearchProgressMap[t]
                          + (RateAfterConstruction * result'.n)
                                \div (Len(game.psResearchQueue) * MsPerSecond)
                ELSE /\ Contains(game'.completedResearch, t)
                     /\ game.psResearchProgressMap[t]
                          + (RateAfterConstruction * result'.n)
                                \div (Len(game.psResearchQueue) * MsPerSecond)
                            >= TECH_TREE[t].cost * RScale]_vars

\* the tick that completed the second space station also completed material_science:
\* at the research rate stored before the tick its progress had stayed below the cost,
\* and the ledger of research points grew by the rate stored before the tick
C23_Witness ==
    /\ result.op = "update"
    /\ saved = "station"
    /\ ticks = 1
    /\ game.structures["space_station"] = 2
    /\ Contains(game.completedResearch, "material_science")
    /\ Loaded.researchProgressMap["material_science"]
          + (Loaded.production.research * result.n) \div MsPerSecond
            < TECH_TREE["material_science"].cost * RScale
    /\ game.production.research > Loaded.production.research
    /\ game.resources.research
          = Loaded.resources.research + gain(Loaded.production.research, result.n)

BuildReasons ==
    {"unknown_structure", "tech_not_unlocked", "limit_reached", "cannot_afford", "queue_full"}

\* the check of ProgressionSystem.startResearch that rejects techId in st, "none" when
\* every check passes
researchRejection(st, techId) ==
    IF techId \notin TechIds THEN "unknown_technology"
    ELSE IF isResearched(st, techId) THEN "already_researched"
    ELSE IF Contains(st.psResearchQueue, techId) THEN "already_in_progress"
    ELSE IF ~canResearch(st, techId) THEN "prerequisites_not_met"
    ELSE IF Len(st.psResearchQueue) >= st.maxResearchSlots THEN "slots_full"
    ELSE "none"

\* the last command was a startResearch that did not start anything; a rejected
\* command leaves the state as it was, so the rejecting check is researchRejection
\* of the current state
ResearchRejected(r) ==
    /\ r.op = "startResearch"
    /\ r.value # <<"true">>
    /\ researchRejection(game, r.id)
          \in {"unknown_technology", "prerequisites_not_met", "slots_full"}

\* C24: a rejected command returns a value that tells the cause: a rejected build
\* returns one of the five reason codes, and two startResearch calls rejected one after
\* the other for different causes (unknown technology, prerequisites not met, slots
\* full) return different values.
C24_ReasonCodes ==
    [][/\ (result'.op = "build" /\ game' = game) => result'.value[1] \in BuildReasons
       /\ (/\ ResearchRejected(result)
           /\ ResearchRejected(result')
           /\ game' = game
           /\ researchRejection(game, result.id) # researchRejection(game, result'.id))
             => result'.value # result.value]_vars

\* the rejection conditions of build, each on its own
TechLocked(st, structureId) == ~isResearched(st, STRUCTURES[structureId].requiresTech)

AtLimit(st, structureId) ==
    /\ STRUCTURES[structureId].hasLimit
    /\ st.structures[structureId] + getQueuedCount(st, structureId)
          >= STRUCTURES[structureId].limit

Unaffordable(st, structureId) == ~canAfford(st, STRUCTURES[structureId].cost)

QueueFull(st) == Len(st.constructionQueue) >= getMaxQueueSize(st)

\* C25: build() reports the earliest failing check in the order unknown structure,
\* required technology, count limit, affordability, queue capacity: a later condition
\* that also holds never changes the reason (unaffordable with a full queue gives
\* cannot_afford, at the limit and unaffordable gives limit_reached), and the build
\* succeeds exactly when no condition holds.
C25_EarliestReason ==
    [][result'.op = "build" =>
          IF result'.id \notin StructureIds THEN result'.value = <<"unknown_structure">>
          ELSE /\ TechLocked(game, result'.id) => result'.value = <<"tech_not_unlocked">>
               /\ (~TechLocked(game, result'.id) /\ AtLimit(game, result'.id))
                     => result'.value = <<"limit_reached">>
               /\ (/\ ~TechLocked(game, result'.id)
                   /\ ~AtLimit(game, result'.id)
                   /\ Unaffordable(game, result'.id))
                     => result'.value = <<"cannot_afford">>
               /\ (/\ ~TechLocked(game, result'.id)
                   /\ ~AtLimit(game, result'.id)
                   /\ ~Unaffordable(game, result'.id)
                   /\ QueueFull(game))
                     => result'.value = <<"queue_full">>
               /\ result'.value = <<"success">>
                     <=> /\ ~TechLocked(game, result'.id)
                         /\ ~AtLimit(game, result'.id)
                         /\ ~Unaffordable(game, result'.id)
                         /\ ~QueueFull(game)
               /\ result'.value # <<"success">> => game' = game]_vars

\* a build was rejected with cannot_afford while the queue was full as well; the
\* rejected build changed nothing, so both conditions still hold
C25_Witness ==
    /\ result.op = "build"
    /\ result.id \in StructureIds
    /\ result.value = <<"cannot_afford">>
    /\ Unaffordable(game, result.id)
    /\ QueueFull(game)

\* ------------------------------------------------- the offline reconcilers
\* offline gaps around the two thresholds, in ms: none, half a minute, just under a
\* minute, a minute,
\* two hours, just under the cap, the cap, just over it, twice the cap
OfflineGaps ==
    {0, MinOfflineMs \div 2, MinOfflineMs - 1, MinOfflineMs, 7200000, MaxOfflineMs - 1, MaxOfflineMs,
     MaxOfflineMs + 1, 2 * MaxOfflineMs}

\* the snapshots whose rates keep a gain of twelve hours within the integers of TLC
OfflineSnapshots == {"none", "early", "labs", "slots", "station"}

InitOffline ==
    /\ game = DefaultState
    /\ saved \in OfflineSnapshots
    /\ elapsedMs \in OfflineGaps
    /\ pc = "loadSavedState"
    /\ ticks = 0
    /\ commands = 0
    /\ result = NoResult

\* the start of a session, up to the first frame
NextOffline == LoadSavedState \/ InitGameSystems

SpecOffline == InitOffline /\ [][NextOffline]_vars

\* the state in which the session would start after an offline gap of elapsed ms
Started(elapsed) ==
    idleAccumulatorInit(
        progressionSystemInit(
            resourceSystemInit(timeManagerInit(saveSystemInit(DefaultState, saved), elapsed))),
        elapsed)

\* C26: with an offline gap below 60 seconds, or with no timestamp of a previous
\* session, the two offline reconcilers add nothing to any resource and emit no
\* offline:progress report: the session starts with the ledger of the snapshot (of a
\* new game when there is none), and the load step leaves exactly that ledger.
C26_BriefGapIgnored ==
    (elapsedMs < MinOfflineMs \/ Loaded.lastSaveAt = "null") =>
        /\ game.emitted.offline_progress = 0
        /\ game.emitted.offline_reports = << >>
        /\ (pc \in {"initGameSystems", "running"} /\ ticks = 0 /\ commands = 0) =>
              game.resources = [k \in ResourceKinds |->
                                    Loaded.resources[k]
                                    + RewardTotal(game.emitted.rewarded, 1, k)]

\* a session loaded from a snapshot saved 59.999 s earlier has started
C26_Witness ==
    /\ pc = "running"
    /\ saved = "early"
    /\ elapsedMs = MinOfflineMs - 1
    /\ Loaded.lastSaveAt = "set"
    /\ game.resources = Loaded.resources
    /\ \E k \in ResourceKinds : Loaded.production[k] > 0

\* C27: the offline gap is clamped to the 24 hour cap before the gains are computed: a
\* session started after a longer gap starts with the ledger it would have after a gap
\* of exactly the cap, and every offline:progress report marks the gap as capped
\* exactly when the gap reached the cap.
C27_ClampedAtCap ==
    /\ (pc = "running" /\ ticks = 0 /\ commands = 0 /\ elapsedMs > MaxOfflineMs) =>
          game.resources = Started(MaxOfflineMs).resources
    /\ \A i \in 1..Len(game.emitted.offline_reports) :
          game.emitted.offline_reports[i].wasMaxed = "true" <=> elapsedMs >= MaxOfflineMs

\* the research:complete events emitted by the step from the current state to the next
CompletedByStep ==
    SubSeq(game'.emitted.research_complete, Len(game.emitted.research_complete) + 1,
           Len(game'.emitted.research_complete))

\* the technologies in progress before the step that are completed after it, in the
\* order in which they were started
CompletedInQueueOrder ==
    LET Finished(t) == Contains(game'.completedResearch, t)
    IN  SelectSeq(game.psResearchQueue, Finished)

Pickable(st) ==
    {t \in TechIds :
        /\ ~Contains(st.completedResearch, t)
        /\ ~Contains(st.psResearchQueue, t)
        /\ \/ TECH_TREE[t].unlocked
           \/ Range(TECH_TREE[t].prerequisites) \subseteq Range(st.completedResearch)}

\* the technologies in progress after the step that were not in progress before it
StartedByStep == Range(game'.psResearchQueue) \ Range(game.psResearchQueue)

\* C29: a technology started by anything but the player's startResearch is started by
\* auto-research: only with the flag enabled, only with every prerequisite completed,
\* never beyond the slots; and when the step completes no research, so that it tries
\* once, it starts a technology exactly when the flag is enabled, a slot is free and
\* some technology can be picked, and that technology is the first one in tech-tree
\* declaration order among those that can be picked.
C29_FirstAvailableStarted ==
    [][result'.op \in {"update", "setAutoResearch"} =>
          /\ \A t \in StartedByStep :
                /\ game'.autoResearch
                /\ ~Contains(game'.completedResearch, t)
                /\ \/ TECH_TREE[t].unlocked
                   \/ Range(TECH_TREE[t].prerequisites)
                          \subseteq Range(game'.completedResearch)
          /\ Len(game'.psResearchQueue) <= game'.maxResearchSlots
                \/ game'.psResearchQueue = game.psResearchQueue
          /\ game'.completedResearch = game.completedResearch =>
                IF /\ game'.autoResearch
                   /\ Len(game.psResearchQueue) < game.maxResearchSlots
                   /\ Pickable(game) # {}
                THEN \E t \in Pickable(game) :
                        /\ \A u \in Pickable(game) :
                              IndexOf(TechOrder, t) <= IndexOf(TechOrder, u)
                        /\ game'.psResearchQueue = Append(game.psResearchQueue, t)
                ELSE game'.psResearchQueue = game.psResearchQueue]_vars

\* the player cancelled orbital_mechanics and then enabled auto-research, which
\* started it again from zero: it is the first technology in declaration order to
\* pick, before material_science and life_support, which could be picked as well
C29_Witness ==
    /\ result.op = "setAutoResearch"
    /\ saved = "early"
    /\ commands = 2
    /\ game.autoResearch
    /\ Loaded.researchProgressMap["orbital_mechanics"] > 0
    /\ game.psResearchQueue = <<"orbital_mechanics">>
    /\ game.psResearchProgressMap["orbital_mechanics"] = 0
    /\ "material_science" \in Pickable(game)
    /\ IndexOf(TechOrder, "orbital_mechanics") < IndexOf(TechOrder, "material_science")

\* ---------------------------------------------------------- the bus on its own
\* the events emitted on the bus; the program never emits "*"
BusEvents == BusKeys \ {"*"}

Subscriptions(st) == Len(st.callbacks["structure:built"])
                        + Len(st.callbacks["research:complete"]) + Len(st.callbacks["*"])

InitEmit ==
    /\ game = DefaultState
    /\ saved = "none"
    /\ elapsedMs = 0
    /\ pc = "running"
    /\ ticks = 0
    /\ commands = 0
    /\ result = NoResult

\* stateManager.subscribe(key, callback)
Subscribe(key, callback) ==
    /\ Subscriptions(game) < MaxSubscriptions
    /\ game' = subscribe(game, key, callback)
    /\ result' = [NoResult EXCEPT !.op = "subscribe", !.id = key]
    /\ UNCHANGED <<saved, elapsedMs, pc, ticks, commands>>

\* a call of the function a subscribe(key, callback) returned
Unsubscribe(key, callback) ==
    /\ Contains(game.callbacks[key], callback)
    /\ game' = unsubscribe(game, key, callback)
    /\ result' = [NoResult EXCEPT !.op = "unsubscribe", !.id = key]
    /\ UNCHANGED <<saved, elapsedMs, pc, ticks, commands>>

\* stateManager.emit(event, data)
Emit(event) ==
    /\ game' = emit(game, event)
    /\ result' = [NoResult EXCEPT !.op = "emit", !.id = event]
    /\ UNCHANGED <<saved, elapsedMs, pc, ticks, commands>>

NextEmit ==
    \/ \E key \in BusKeys, callback \in Callbacks : Subscribe(key, callback)
    \/ \E key \in BusKeys, callback \in Callbacks : Unsubscribe(key, callback)
    \/ \E event \in BusEvents : Emit(event)

SpecEmit == InitEmit /\ [][NextEmit]_vars

\* how often an emit of event invoked registration i of the array under key
Invocations(key, i, event) ==
    LET Hit(d) == /\ d.callback = game.callbacks[key][i]
                  /\ d.event = event
                  /\ d.wildcard = (key = "*")
    IN  Len(SelectSeq(game.emitted.delivered, Hit))

\* how many registrations of callback the array under key holds
Registrations(key, i) ==
    LET Same(c) == c = game.callbacks[key][i]
    IN  Len(SelectSeq(game.callbacks[key], Same))

\* the invocation ended in an exception
Thrown(d) == d.callback \in Throwing

\* C30: an emit invokes every callback registered for its event and every wildcard
\* callback exactly once per registration, in order of registration, also the ones
\* registered after a callback that throws; every exception is caught and logged, and
\* none reaches the emitter.
C30_EveryListenerInvoked ==
    result.op = "emit" =>
        /\ ~game.emitted.escaped
        /\ Len(game.emitted.delivered)
              = Len(game.callbacks[result.id]) + Len(game.callbacks["*"])
        /\ \A i \in 1..Len(game.callbacks[result.id]) :
              /\ game.emitted.delivered[i].callback = game.callbacks[result.id][i]
              /\ Invocations(result.id, i, result.id) = Registrations(result.id, i)
        /\ \A i \in 1..Len(game.callbacks["*"]) :
              /\ game.emitted.delivered[Len(game.callbacks[result.id]) + i].callback
                    = game.callbacks["*"][i]
              /\ Invocations("*", i, result.id) = Registrations("*", i)
        /\ game.emitted.contained = Len(SelectSeq(game.emitted.delivered, Thrown))

\* the first callback of the event threw; the second one and the wildcard callback
\* were invoked all the same
C30_Witness ==
    /\ result.op = "emit"
    /\ game.callbacks[result.id] = <<"faulty", "save">>
    /\ game.callbacks["*"] = <<"save">>
    /\ Len(game.emitted.delivered) = 3
    /\ game.emitted.contained = 1

\* ------------------------------------------- the recompute called directly
\* resourceSystem.recalculateProduction(), the public method behind setModifier, called
\* once a saved game is loaded; result.n counts the calls in a row, up to two
Recalculate ==
    /\ pc \in {"initGameSystems", "running"}
    /\ game' = recalculateProduction(game)
    /\ result' = [NoResult EXCEPT
                    !.op = "recalculateProduction",
                    !.n = IF result.op = "recalculateProduction" THEN 2 ELSE 1]
    /\ UNCHANGED <<saved, elapsedMs, pc, ticks, commands>>

NextRecompute == NextLate \/ Recalculate

SpecRecompute == InitLate /\ [][NextRecompute]_vars

\* C31: the production recompute is idempotent: a recalculateProduction that follows
\* another directly, with the structure counts, the completed technologies and the
\* modifiers unchanged in between, stores the production rates, the build-speed
\* modifier, the logistics values and the solar capture that the first one stored, and
\* changes neither the structures nor the completed technologies.
C31_RecomputeIdempotent ==
    [][(result'.op = "recalculateProduction" /\ result'.n = 2) =>
          /\ Recomputed(game, game')
          /\ game'.structures = game.structures
          /\ game'.completedResearch = game.completedResearch]_vars

\* a saved game was loaded and the systems are not yet initialised: the first call
\* replaced the default build speed and the stale logistics, the second call followed
C31_Witness ==
    /\ pc = "initGameSystems"
    /\ saved = "hub"
    /\ result.op = "recalculateProduction"
    /\ result.n = 2
    /\ game.buildSpeed > DefaultState.buildSpeed
    /\ game.logistics # DefaultState.logistics
    /\ game.solarCapture > 0

\* the state st with the research queue and the progress map of other, in both copies
WithResearchOf(st, other) ==
    [st EXCEPT !.psResearchQueue = other.psResearchQueue,
               !.psResearchProgressMap = other.psResearchProgressMap,
               !.researchQueue = other.researchQueue,
               !.researchProgressMap = other.researchProgressMap]

\* C32: cancelResearch of a technology in progress takes it off the queue, the others
\* keeping their order and their progress, and drops its progress entry; the ledger,
\* the completed list, maxResearchSlots and everything else stay as they were.
\* cancelResearch of a technology that is not in progress changes nothing, and a
\* startResearch that succeeds, also right after the cancel of the same technology,
\* starts at progress 0.
C32_CancelDiscardsProgress ==
    [][/\ result'.op = "cancelResearch" =>
             IF Contains(game.psResearchQueue, result'.id)
             THEN /\ result'.value = <<"true">>
                  /\ LET Others(t) == t # result'.id
                     IN  game'.psResearchQueue = SelectSeq(game.psResearchQueue, Others)
                  /\ DOMAIN game'.psResearchProgressMap
                        = DOMAIN game.psResearchProgressMap \ {result'.id}
                  /\ \A t \in DOMAIN game'.psResearchProgressMap :
                        game'.psResearchProgressMap[t] = game.psResearchProgressMap[t]
                  /\ game'.researchQueue = game'.psResearchQueue
                  /\ game'.researchProgressMap = game'.psResearchProgressMap
                  /\ game'.resources = game.resources
                  /\ game'.completedResearch = game.completedResearch
                  /\ game'.maxResearchSlots = game.maxResearchSlots
                  /\ WithResearchOf(game', game) = game
             ELSE /\ result'.value = <<"false">>
                  /\ game' = game
       /\ (result'.op = "startResearch" /\ result'.value = <<"true">>) =>
             /\ game'.psResearchProgressMap[result'.id] = 0
             /\ game'.researchProgressMap[result'.id] = 0]_vars

\* orbital_mechanics, loaded with progress, was cancelled and started again: it is in
\* progress at 0
C32_Witness ==
    /\ result.op = "startResearch"
    /\ result.id = "orbital_mechanics"
    /\ result.value = <<"true">>
    /\ saved = "early"
    /\ ticks = 0
    /\ Loaded.researchProgressMap["orbital_mechanics"] > 0
    /\ game.psResearchQueue = <<"orbital_mechanics">>
    /\ game.psResearchProgressMap["orbital_mechanics"] = 0
    /\ game.resources = Loaded.resources

\* ------------------------------------- import and reset in a running session
\* the saved games handed to importSave
ImportInputs == {"early", "slots"}

\* StateManager.reset: state = getDefaultState(); the fields of the systems stay
resetState(st) == loadState(st, DefaultState)

\* SaveSystem.importSave(jsonString): loadState of the imported game (the save that
\* follows writes a copy of the state to the store)
ImportSave(name) ==
    /\ Accepting
    /\ game' = loadState(game, Snapshot(name))
    /\ result' = [NoResult EXCEPT !.op = "importSave", !.id = name]
    /\ Counted

\* SaveSystem.resetGame(), as window.solarK2Game.reset calls it
ResetGame ==
    /\ Accepting
    /\ game' = resetState(game)
    /\ result' = [NoResult EXCEPT !.op = "resetGame"]
    /\ Counted

NextReload ==
    \/ LoadSavedState
    \/ InitGameSystems
    \/ \E deltaTime \in DeltaTimes : Tick(deltaTime)
    \/ \E techId \in TechInputs : StartResearch(techId)
    \/ \E techId \in TechInputs : CancelResearch(techId)
    \/ \E name \in ImportInputs : ImportSave(name)
    \/ ResetGame

SpecReload == Init /\ [][NextReload]_vars

\* C33: once the systems are initialised, after every operation, an import of a saved
\* game and a full reset included, the research queue and the progress map stored in
\* the state are those of the research scheduler.
C33_SchedulerInStep ==
    pc = "running" =>
        /\ game.researchQueue = game.psResearchQueue
        /\ game.researchProgressMap = game.psResearchProgressMap

\* --------------------------------------------- the game loop left to run on
\* frames the loop runs after the player's last command
MaxFrames == 10

\* the sessions left to run
IdleCases == {<<"none", 0>>, <<"early", 30000>>, <<"swarm", 30000>>}

InitIdle ==
    /\ game = DefaultState
    /\ \E c \in IdleCases : saved = c[1] /\ elapsedMs = c[2]
    /\ pc = "loadSavedState"
    /\ ticks = 0
    /\ commands = 0
    /\ result = NoResult

\* Game.gameLoop: requestAnimationFrame calls update(deltaTime) frame after frame
Frame(deltaTime) ==
    /\ pc = "running"
    /\ ticks < MaxFrames
    /\ game' = gameUpdate(game, deltaTime)
    /\ ticks' = ticks + 1
    /\ result' = [NoResult EXCEPT !.op = "update", !.n = deltaTime]
    /\ UNCHANGED <<saved, elapsedMs, pc, commands>>

\* deltaTime of the frames of a session left to its construction, in ms
IdleTimes == {2000, 15000}

\* the player queues structures, then leaves the game running
NextIdle ==
    \/ LoadSavedState
    \/ InitGameSystems
    \/ \E structureId \in StructureInputs : ticks = 0 /\ Build(structureId)
    \/ \E deltaTime \in IdleTimes : Frame(deltaTime)

\* the step every Frame takes, whatever its deltaTime: one more frame was run
FrameRun == pc = "running" /\ ticks < MaxFrames /\ ticks' = ticks + 1

\* gameLoop ends with requestAnimationFrame(gameLoop): while the page is open the
\* browser keeps calling it, so a frame that can run does run
SpecIdle == InitIdle /\ [][NextIdle]_vars /\ WF_ticks(FrameRun)

\* the items of structure s in a construction queue
QueuedIn(queue, s) == Cardinality({i \in 1..Len(queue) : queue[i].structureId = s})

\* the longest queue ConstructionSystem.build accepts
LongestQueue == baseQueueSize + STRUCTURES["launch_pad"].limit

\* the head's progress after the frame's deltaTime at the current build speed
HeadGrown(deltaTime) ==
    game.constructionQueue[1].progress + (deltaTime * game.buildSpeed) \div MScale

StudyTimes == {60000, 120000}

\* the sessions left to their research
StudyCases == {<<"none", 0>>, <<"early", 30000>>, <<"labs", 30000>>}

InitStudy ==
    /\ game = DefaultState
    /\ \E c \in StudyCases : saved = c[1] /\ elapsedMs = c[2]
    /\ pc = "loadSavedState"
    /\ ticks = 0
    /\ commands = 0
    /\ result = NoResult

\* the player starts research, then leaves the game running
NextStudy ==
    \/ LoadSavedState
    \/ InitGameSystems
    \/ \E techId \in TechInputs : ticks = 0 /\ StartResearch(techId)
    \/ \E deltaTime \in StudyTimes : Frame(deltaTime)

SpecStudy == InitStudy /\ [][NextStudy]_vars /\ WF_ticks(FrameRun)

\* C35: with the game loop running, every technology in progress is eventually
\* completed: the research rate is never below the base rate, so in every frame every
\* technology in progress (at most maxResearchSlots of them) either gains progress or
\* is completed.
C35_ResearchCompleted ==
    /\ \A t \in TechIds :
          (pc = "running" /\ Contains(game.psResearchQueue, t))
              ~> Contains(game.completedResearch, t)
    /\ [](/\ game.production.research >= BASE_PRODUCTION.research
          /\ Len(game.psResearchQueue) <= game.maxResearchSlots)
    /\ [][result'.op = "update" =>
            \A i \in 1..Len(game.psResearchQueue) :
                \/ Contains(game'.completedResearch, game.psResearchQueue[i])
                \/ /\ Contains(game'.psResearchQueue, game.psResearchQueue[i])
                   /\ game'.psResearchProgressMap[game.psResearchQueue[i]]
                        > game.psResearchProgressMap[game.psResearchQueue[i]]
         ]_vars

\* solar_panels, started from nothing in a new game, was completed by the frames
C35_Witness ==
    /\ pc = "running"
    /\ saved = "none"
    /\ commands = 1
    /\ ticks >= 3
    /\ result.op = "update"
    /\ Contains(game.completedResearch, "solar_panels")
    /\ Len(game.psResearchQueue) = 0
    /\ game.stats.totalResearchCompleted = 1

\* the counter after the addition of applyAutoConstruction, before its loop
CounterRaised(st, deltaTime) ==
    IF Len(st.constructionQueue) > 0 /\ st.logistics.autoConstruction > 0
    THEN st.autoBuildProgress + st.logistics.autoConstruction * deltaTime
    ELSE st.autoBuildProgress

\* C36: after the auto-construction step of a tick the counter is below one whole
\* item or the construction queue is empty, and the step takes one whole item off the
\* counter for each item it completes: n units off the counter go with the first n
\* items leaving the queue and with n more structures, each of the structure of its
\* item (n can exceed 1).
C36_OneUnitPerItem ==
    [][result'.op = "update" =>
        /\ game'.autoBuildProgress < AutoBuildUnit \/ Len(game'.constructionQueue) = 0
        /\ \A before \in {progressHead(resourceUpdate(game, result'.n), result'.n)} :
            \E n \in 0..Len(before.constructionQueue) :
                /\ game'.autoBuildProgress = CounterRaised(before, result'.n) - n * AutoBuildUnit
                /\ game'.constructionQueue
                     = SubSeq(before.constructionQueue, n + 1, Len(before.constructionQueue))
                /\ \A s \in StructureIds :
                      game'.structures[s]
                        = before.structures[s]
                          + QueuedIn(SubSeq(before.constructionQueue, 1, n), s)
                /\ game'.stats.totalStructuresBuilt = before.stats.totalStructuresBuilt + n
      ]_vars

\* a frame of 15 s with three satellites queued: the head was completed by its
\* progress and the two behind it by the auto-construction step
C36_Witness ==
    /\ saved = "swarm"
    /\ result.op = "update"
    /\ result.n = 15000
    /\ ticks = 1
    /\ commands = 0
    /\ Len(Loaded.constructionQueue) = 3
    /\ Len(game.constructionQueue) = 0
    /\ game.structures["dyson_satellite"] = Loaded.structures["dyson_satellite"] + 3
    /\ game.autoBuildProgress > 0
    /\ game.autoBuildProgress < AutoBuildUnit

\* every prerequisite of technology t is completed
PrerequisitesMet(t) ==
    /\ t \in TechIds
    /\ \A i \in 1..Len(TECH_TREE[t].prerequisites) :
          Contains(game.completedResearch, TECH_TREE[t].prerequisites[i])

\* C37: every technology completed or in progress has all its prerequisites
\* completed, and every structure built or queued has its required technology
\* completed.
C37_PrerequisitesCompleted ==
    /\ \A t \in Range(game.completedResearch) \cup Range(game.psResearchQueue)
                    \cup Range(game.researchQueue) : PrerequisitesMet(t)
    /\ \A s \in StructureIds :
          (game.structures[s] > 0 \/ QueuedIn(game.constructionQueue, s) > 0) =>
              Contains(game.completedResearch, STRUCTURES[s].requiresTech)

\* with a research slot free, life_support was refused because orbital_mechanics is
\* not completed
C37_Witness ==
    /\ result.op = "startResearch"
    /\ result.id = "life_support"
    /\ result.value = <<"false">>
    /\ Len(game.psResearchQueue) < game.maxResearchSlots
    /\ ~Contains(game.completedResearch, "orbital_mechanics")
    /\ ~Contains(game.psResearchQueue, "life_support")

\* C38: the statistics agree with the state they count: totalStructuresBuilt is the
\* sum of the structure counts, dysonSatellites is the dyson_satellite count, and
\* totalResearchCompleted is the number of completed technologies less the one a new
\* game starts with.
C38_StatsAgree ==
    /\ game.stats.totalStructuresBuilt = SumSet(StructureIds, game.structures)
    /\ game.stats.dysonSatellites = game.structures["dyson_satellite"]
    /\ game.stats.totalResearchCompleted
         = Len(game.completedResearch) - Len(DefaultState.completedResearch)

\* in one session a structure was built and a technology completed
C38_Witness ==
    /\ pc = "running"
    /\ result.op = "update"
    /\ game.stats.totalStructuresBuilt > Loaded.stats.totalStructuresBuilt
    /\ game.stats.totalResearchCompleted > Loaded.stats.totalResearchCompleted
    /\ Len(game.completedResearch) > Len(Loaded.completedResearch)
====
